---- MODULE Spec2Model ----
(***************************************************************************)
(* Model of the duplicate-function detector pair                           *)
(*   scripts/repo/analysis/find_duplicate_functions.py       (exact tool)  *)
(*   scripts/repo/analysis/find_near_duplicate_functions.py  (near tool)   *)
(*                                                                         *)
(* Text is a sequence of one-character strings, so that len(), equality    *)
(* and the similarity ratio are computed on characters as the code does.   *)
(* A syntax tree is a record with a "kind" and the fields of that kind;    *)
(* the position attributes lineno, col_offset, end_lineno, end_col_offset  *)
(* are integers, and the value None of such an attribute is written NoPos.   *)
(***************************************************************************)
EXTENDS Integers, Sequences, FiniteSets, TLC

(***************************************************************************)
(* Text helpers                                                            *)
(***************************************************************************)
Spell(w) ==
    CASE w = "FunctionDef" -> <<"F","u","n","c","t","i","o","n","D","e","f">>
      [] w = "AsyncFunctionDef" -> <<"A","s","y","n","c","F","u","n","c","t","i","o","n","D","e","f">>
      [] w = "arguments" -> <<"a","r","g","u","m","e","n","t","s">>
      [] w = "arg" -> <<"a","r","g">>
      [] w = "Assign" -> <<"A","s","s","i","g","n">>
      [] w = "Return" -> <<"R","e","t","u","r","n">>
      [] w = "Name" -> <<"N","a","m","e">>
      [] w = "Constant" -> <<"C","o","n","s","t","a","n","t">>
      [] w = "BinOp" -> <<"B","i","n","O","p">>
      [] w = "Add" -> <<"A","d","d">>
      [] w = "Load" -> <<"L","o","a","d">>
      [] w = "Store" -> <<"S","t","o","r","e">>
      [] w = "Lambda" -> <<"L","a","m","b","d","a">>
      [] w = "ClassDef" -> <<"C","l","a","s","s","D","e","f">>
      [] w = "UnaryOp" -> <<"U","n","a","r","y","O","p">>
      [] w = "USub" -> <<"U","S","u","b">>
      [] w = "operand" -> <<"o","p","e","r","a","n","d">>
      [] w = "name" -> <<"n","a","m","e">>
      [] w = "args" -> <<"a","r","g","s">>
      [] w = "body" -> <<"b","o","d","y">>
      [] w = "decorator_list" -> <<"d","e","c","o","r","a","t","o","r","_","l","i","s","t">>
      [] w = "posonlyargs" -> <<"p","o","s","o","n","l","y","a","r","g","s">>
      [] w = "vararg" -> <<"v","a","r","a","r","g">>
      [] w = "kwonlyargs" -> <<"k","w","o","n","l","y","a","r","g","s">>
      [] w = "kw_defaults" -> <<"k","w","_","d","e","f","a","u","l","t","s">>
      [] w = "kwarg" -> <<"k","w","a","r","g">>
      [] w = "defaults" -> <<"d","e","f","a","u","l","t","s">>
      [] w = "targets" -> <<"t","a","r","g","e","t","s">>
      [] w = "value" -> <<"v","a","l","u","e">>
      [] w = "id" -> <<"i","d">>
      [] w = "ctx" -> <<"c","t","x">>
      [] w = "left" -> <<"l","e","f","t">>
      [] w = "op" -> <<"o","p">>
      [] w = "right" -> <<"r","i","g","h","t">>
      [] w = "bases" -> <<"b","a","s","e","s">>
      [] w = "keywords" -> <<"k","e","y","w","o","r","d","s">>
      [] w = "lineno" -> <<"l","i","n","e","n","o">>
      [] w = "col_offset" -> <<"c","o","l","_","o","f","f","s","e","t">>
      [] w = "end_lineno" -> <<"e","n","d","_","l","i","n","e","n","o">>
      [] w = "end_col_offset" -> <<"e","n","d","_","c","o","l","_","o","f","f","s","e","t">>
      [] w = "None" -> <<"N","o","n","e">>
      [] w = "True" -> <<"T","r","u","e">>
      [] w = "False" -> <<"F","a","l","s","e">>
      [] w = "FUNC" -> <<"F","U","N","C">>
      [] w = "ARG" -> <<"A","R","G">>
      [] w = "VAR" -> <<"V","A","R">>
      [] w = "VARARG" -> <<"V","A","R","A","R","G">>
      [] w = "KWARG" -> <<"K","W","A","R","G">>

Digit(d) == <<"0","1","2","3","4","5","6","7","8","9">>[d + 1]

RECURSIVE IntChars(_)
IntChars(n) == IF n < 10 THEN <<Digit(n)>> ELSE IntChars(n \div 10) \o <<Digit(n % 10)>>

RECURSIVE Join(_, _)
Join(parts, sep) ==
    IF parts = <<>> THEN <<>>
    ELSE IF Len(parts) = 1 THEN parts[1]
    ELSE parts[1] \o sep \o Join(Tail(parts), sep)

Quote(s) == <<"'">> \o s \o <<"'">>

(***************************************************************************)
(* Syntax trees                                                            *)
(***************************************************************************)
NoneNode == [kind |-> "None"]

\* _fields of each node class, in declaration order, with the sort of value
\* each holds: "ident" (str), "const" (constant value), "node", "opt"
\* (node or None) and "list" (list of nodes, None allowed as an element).
Fields(kind) ==
    CASE kind \in {"FunctionDef", "AsyncFunctionDef"} ->
            << <<"name", "ident">>, <<"args", "node">>, <<"body", "list">>,
               <<"decorator_list", "list">> >>
      [] kind = "ClassDef" ->
            << <<"name", "ident">>, <<"bases", "list">>, <<"keywords", "list">>,
               <<"body", "list">>, <<"decorator_list", "list">> >>
      [] kind = "arguments" ->
            << <<"posonlyargs", "list">>, <<"args", "list">>, <<"vararg", "opt">>,
               <<"kwonlyargs", "list">>, <<"kw_defaults", "list">>,
               <<"kwarg", "opt">>, <<"defaults", "list">> >>
      [] kind = "arg" -> << <<"arg", "ident">> >>
      [] kind = "Assign" -> << <<"targets", "list">>, <<"value", "node">> >>
      [] kind = "Return" -> << <<"value", "opt">> >>
      [] kind = "Name" -> << <<"id", "ident">>, <<"ctx", "node">> >>
      [] kind = "Constant" -> << <<"value", "const">> >>
      [] kind = "BinOp" -> << <<"left", "node">>, <<"op", "node">>, <<"right", "node">> >>
      [] kind = "Lambda" -> << <<"args", "node">>, <<"body", "node">> >>
      [] kind = "UnaryOp" -> << <<"op", "node">>, <<"operand", "node">> >>
      [] OTHER -> << >>

\* None, as the value of a position attribute or of a record's lineno
NoPos == -1

PosAttrs == <<"lineno", "col_offset", "end_lineno", "end_col_offset">>

HasAttr(n, attr) == attr \in DOMAIN n

SeqToSet(s) == {s[i] : i \in 1..Len(s)}

RECURSIVE FlattenSeq(_)
FlattenSeq(ss) == IF ss = <<>> THEN <<>> ELSE ss[1] \o FlattenSeq(Tail(ss))

\* ast.iter_child_nodes
iter_child_nodes(n) ==
    LET fs == Fields(n.kind)
        One(i) ==
            LET v == n[fs[i][1]]
                t == fs[i][2]
            IN  CASE t = "node" -> <<v>>
                  [] t = "opt" -> IF v = NoneNode THEN <<>> ELSE <<v>>
                  [] t = "list" -> SelectSeq(v, LAMBDA x : x # NoneNode)
                  [] OTHER -> <<>>
    IN  FlattenSeq([i \in 1..Len(fs) |-> One(i)])

\* ast.walk: breadth-first, the node itself first
RECURSIVE WalkQueue(_)
WalkQueue(queue) ==
    IF queue = <<>> THEN <<>>
    ELSE <<Head(queue)>> \o WalkQueue(Tail(queue) \o iter_child_nodes(Head(queue)))

walk(node) == WalkQueue(<<node>>)

\* The tree n with f applied to every node that rebuild reaches; rebuild is
\* the recursive operator being defined (StripPositions, RenameIdents).
SubTrees(n, rebuild(_)) ==
    LET fs == Fields(n.kind)
        TypeOf(k) == LET i == CHOOSE i \in 1..Len(fs) : fs[i][1] = k IN fs[i][2]
    IN  [k \in DOMAIN n |->
            IF k \notin {fs[i][1] : i \in 1..Len(fs)} THEN n[k]
            ELSE CASE TypeOf(k) \in {"node", "opt"} -> rebuild(n[k])
                   [] TypeOf(k) = "list" -> [j \in 1..Len(n[k]) |-> rebuild(n[k][j])]
                   [] OTHER -> n[k]]

\* A record of kind UnaryOp with the key levels stands for that many
\* UnaryOp nodes nested in one another, the innermost holding operand.
Unfold(n) ==
    IF HasAttr(n, "levels") /\ n.levels > 1
    THEN [n EXCEPT !.levels = 1, !.operand = [n EXCEPT !.levels = n.levels - 1]]
    ELSE n

\* the number of nodes on the longest path from n down to a leaf
RECURSIVE Depth(_)
Depth(n) ==
    IF n = NoneNode THEN 0
    ELSE LET below == {Depth(c) : c \in SeqToSet(iter_child_nodes(n))} \cup {0}
         IN  (IF HasAttr(n, "levels") THEN n.levels ELSE 1)
             + (CHOOSE d \in below : \A e \in below : e <= d)

\* sys.getrecursionlimit() of the interpreter that runs the scripts
RecursionLimit == 1000

\* ast.dump recurses once per level of the tree and copy.deepcopy four
\* times (deepcopy, _reconstruct, _deepcopy_dict, deepcopy of the field);
\* either raises RecursionError when that exceeds the limit.  The frames of
\* the callers, a dozen, are left out of the count.
DumpRaises(node) == Depth(node) >= RecursionLimit
CopyRaises(node) == 4 * Depth(node) >= RecursionLimit

\* s written k times in a row
RepeatSeq(s, k) == [i \in 1..(k * Len(s)) |-> s[((i - 1) % Len(s)) + 1]]

\* ast.dump(node, include_attributes=...) with the default annotate_fields
RECURSIVE ast_dump(_, _)
ast_dump(n, include_attributes) ==
    IF n = NoneNode THEN Spell("None")
    ELSE IF Unfold(n) # n THEN
        \* the text of n.levels nested nodes: the opening of one node that
        \* many times, the operand, and the closing of one node that many times
        LET inner == ast_dump(n.operand, include_attributes)
            one == ast_dump([n EXCEPT !.levels = 1], include_attributes)
            opening == Len(Spell(n.kind)) + 1 + Len(Spell("op")) + 1 +
                       Len(ast_dump(n.op, include_attributes)) + 2 +
                       Len(Spell("operand")) + 1
        IN  RepeatSeq(SubSeq(one, 1, opening), n.levels) \o inner \o
            RepeatSeq(SubSeq(one, opening + Len(inner) + 1, Len(one)), n.levels)
    ELSE
        LET fs == Fields(n.kind)
            Shown == SelectSeq([i \in 1..Len(fs) |-> i],
                               LAMBDA i : ~(fs[i][2] = "opt" /\ n[fs[i][1]] = NoneNode))
            Val(i) ==
                LET v == n[fs[i][1]]
                    t == fs[i][2]
                IN  CASE t = "ident" -> Quote(v)
                      [] t = "const" ->
                            IF v.kind = "int" THEN IntChars(v.v) ELSE Quote(v.v)
                      [] t = "list" ->
                            <<"[">> \o
                            Join([j \in 1..Len(v) |-> ast_dump(v[j], include_attributes)],
                                 <<",", " ">>) \o <<"]">>
                      [] OTHER -> ast_dump(v, include_attributes)
            fieldArgs == [j \in 1..Len(Shown) |->
                            Spell(fs[Shown[j]][1]) \o <<"=">> \o Val(Shown[j])]
            attrNames == IF include_attributes
                         THEN SelectSeq(PosAttrs,
                                LAMBDA a : HasAttr(n, a) /\ ~(n[a] = NoPos /\
                                    a \in {"end_lineno", "end_col_offset"}))
                         ELSE <<>>
            attrArgs == [j \in 1..Len(attrNames) |->
                            Spell(attrNames[j]) \o <<"=">> \o
                            (IF n[attrNames[j]] = NoPos THEN Spell("None")
                             ELSE IntChars(n[attrNames[j]]))]
        IN  Spell(n.kind) \o <<"(">> \o Join(fieldArgs \o attrArgs, <<",", " ">>) \o <<")">>

(***************************************************************************)
(* find_duplicate_functions.py: position-insensitive dump and hash         *)
(***************************************************************************)
\* The loop of normalized_ast_dump: every position attribute a node has is
\* set to None.  The loop writes into the node it is given, so this is also
\* the state of the caller's node after the call.
RECURSIVE StripPositions(_)
StripPositions(n) ==
    IF n = NoneNode THEN n
    ELSE LET sub == SubTrees(n, StripPositions)
         IN  [k \in DOMAIN sub |-> IF k \in SeqToSet(PosAttrs) THEN NoPos ELSE sub[k]]

\* as normalized_ast_dump, but the positions are left in and dumped
normalized_ast_dump_with_positions(node) == ast_dump(node, TRUE)

normalized_ast_dump(node) == ast_dump(StripPositions(node), FALSE)

\* sha256 hex digest, taken to be collision free: the digest of a text is
\* a value that determines the text.
hash_text(text) == <<"sha256", text>>

(***************************************************************************)
(* find_near_duplicate_functions.py: name-agnostic dump                    *)
(***************************************************************************)
DictSet(d, k, v) == [x \in DOMAIN d \cup {k} |-> IF x = k THEN v ELSE d[x]]

EmptyDict == [x \in {} |-> <<>>]

Placeholder(prefix, i) == Spell(prefix) \o IntChars(i)

\* lines 74-85, first half: the arg_map after the enumerate loop over
\* n.args.args and the vararg / kwarg assignments (later keys overwrite)
RECURSIVE ArgMapOfArgs(_, _, _)
ArgMapOfArgs(as, i, m) ==
    IF i > Len(as) THEN m
    ELSE ArgMapOfArgs(as, i + 1, DictSet(m, as[i].arg, Placeholder("ARG", i - 1)))

BuildArgMap(arguments) ==
    LET m0 == ArgMapOfArgs(arguments.args, 1, EmptyDict)
        m1 == IF arguments.vararg # NoneNode
              THEN DictSet(m0, arguments.vararg.arg, Spell("VARARG")) ELSE m0
    IN  IF arguments.kwarg # NoneNode
        THEN DictSet(m1, arguments.kwarg.arg, Spell("KWARG")) ELSE m1

\* lines 74-85, second half: the parameter nodes as the same statements
\* leave them (a.arg = "ARG<i>", vararg.arg = "VARARG", kwarg.arg = "KWARG")
RenameParams(arguments) ==
    [arguments EXCEPT
        !.args = [i \in 1..Len(arguments.args) |->
                    [arguments.args[i] EXCEPT !.arg = Placeholder("ARG", i - 1)]],
        !.vararg = IF arguments.vararg = NoneNode THEN NoneNode
                   ELSE [arguments.vararg EXCEPT !.arg = Spell("VARARG")],
        !.kwarg = IF arguments.kwarg = NoneNode THEN NoneNode
                  ELSE [arguments.kwarg EXCEPT !.arg = Spell("KWARG")]]

\* lines 89-103: name_map after the walk, from the Name ids in walk order
RECURSIVE BuildNameMap(_, _, _, _)
BuildNameMap(nodes, arg_map, name_map, counter) ==
    IF nodes = <<>> THEN name_map
    ELSE LET t == Head(nodes)
         IN  IF t.kind = "Name"
                /\ t.id \notin {Spell("True"), Spell("False"), Spell("None")}
                /\ t.id \notin DOMAIN arg_map
                /\ t.id \notin DOMAIN name_map
             THEN BuildNameMap(Tail(nodes), arg_map,
                               DictSet(name_map, t.id, Placeholder("VAR", counter)),
                               counter + 1)
             ELSE BuildNameMap(Tail(nodes), arg_map, name_map, counter)

\* lines 92-107: what the walk writes into each node it visits
RECURSIVE RenameIdents(_, _, _)
RenameIdents(n, arg_map, name_map) ==
    IF n = NoneNode THEN n
    ELSE LET sub == SubTrees(n, LAMBDA x : RenameIdents(x, arg_map, name_map))
         IN  CASE n.kind = "Name" ->
                    IF n.id \in {Spell("True"), Spell("False"), Spell("None")} THEN sub
                    ELSE IF n.id \in DOMAIN arg_map THEN [sub EXCEPT !.id = arg_map[n.id]]
                    ELSE [sub EXCEPT !.id = name_map[n.id]]
               [] n.kind = "arg" ->
                    IF n.arg \in DOMAIN arg_map THEN [sub EXCEPT !.arg = arg_map[n.arg]]
                    ELSE sub
               [] OTHER -> sub

\* The tree that normalized_function_body_dump serializes (a deep copy of
\* node, renamed and stripped).
NormalizedCopy(node) ==
    LET arg_map == BuildArgMap(node.args)
        n == [node EXCEPT !.name = Spell("FUNC"), !.args = RenameParams(node.args)]
        name_map == BuildNameMap(walk(n), arg_map, EmptyDict, 0)
    IN  StripPositions(RenameIdents(n, arg_map, name_map))

\* Returns the dump, or <<>> for None: the node is no function (line 62),
\* copy.deepcopy raises (lines 65-68) or ast.dump raises (lines 118-121).
normalized_function_body_dump(node) ==
    IF node.kind \notin {"FunctionDef", "AsyncFunctionDef"} THEN <<>>
    ELSE IF CopyRaises(node) \/ DumpRaises(node) THEN <<>>
    ELSE ast_dump(NormalizedCopy(node), FALSE)

bucket_key(s) == Len(s) \div 120


(***************************************************************************)
(* Source files.  A file's text is given by what the parser makes of it:   *)
(* the shapes of its top-level statements, laid out one statement per      *)
(* line after `lead` blank or comment lines.                               *)
(***************************************************************************)
Ctx(c) == [kind |-> c]
NameE(id, c) == [kind |-> "Name", id |-> id, ctx |-> Ctx(c)]
IntE(v) == [kind |-> "Constant", value |-> [kind |-> "int", v |-> v]]
StrE(v) == [kind |-> "Constant", value |-> [kind |-> "str", v |-> v]]
AddE(l, r) == [kind |-> "BinOp", left |-> l, op |-> [kind |-> "Add"], right |-> r]
\* n minus signs before e
NegE(n, e) == [kind |-> "UnaryOp", op |-> [kind |-> "USub"], operand |-> e, levels |-> n]
ArgN(id) == [kind |-> "arg", arg |-> id]
Params(po, ar, va, ko, kw) ==
    [kind |-> "arguments", posonlyargs |-> po, args |-> ar, vararg |-> va,
     kwonlyargs |-> ko, kw_defaults |-> [i \in 1..Len(ko) |-> NoneNode],
     kwarg |-> kw, defaults |-> <<>>]
Args(ar) == Params(<<>>, ar, NoneNode, <<>>, NoneNode)
LambdaE(ar, b) == [kind |-> "Lambda", args |-> Args(ar), body |-> b]
AssignS(id, v) == [kind |-> "Assign", targets |-> <<NameE(id, "Store")>>, value |-> v]
ReturnS(v) == [kind |-> "Return", value |-> v]
DefS(kind, name, params, body) ==
    [kind |-> kind, name |-> name, args |-> params, body |-> body,
     decorator_list |-> <<>>]
ClassS(name, body) ==
    [kind |-> "ClassDef", name |-> name, bases |-> <<>>, keywords |-> <<>>,
     body |-> body, decorator_list |-> <<>>]

IsBlock(n) == n.kind \in {"FunctionDef", "AsyncFunctionDef", "ClassDef"}

\* number of source lines a statement takes
RECURSIVE Height(_)
RECURSIVE HeightSum(_, _)
Height(n) == IF IsBlock(n) THEN 1 + HeightSum(n.body, Len(n.body)) ELSE 1
HeightSum(stmts, k) == IF k = 0 THEN 0 ELSE HeightSum(stmts, k - 1) + Height(stmts[k])

\* The positions the parser attaches: a statement starts on its own line,
\* indented four columns per level; the expressions and parameters of a
\* statement carry the statement's line.  Columns inside a line are not
\* reconstructed: every node of a line gets the statement's column.
RECURSIVE Locate(_, _, _)
Locate(n, line, depth) ==
    IF n.kind \in {"None", "Load", "Store", "Add", "USub"} THEN n
    ELSE IF n.kind = "arguments" THEN SubTrees(n, LAMBDA x : Locate(x, line, depth))
    ELSE
        LET here == [lineno |-> line, col_offset |-> 4 * depth,
                     end_lineno |-> line + Height(n) - 1,
                     end_col_offset |-> 4 * depth + 1]
            sub == SubTrees(n, LAMBDA x : Locate(x, line, depth))
        IN  IF IsBlock(n)
            THEN [sub EXCEPT !.body = [j \in 1..Len(n.body) |->
                        Locate(n.body[j], line + 1 + HeightSum(n.body, j - 1),
                               depth + 1)]] @@ here
            ELSE sub @@ here

\* ast.parse(src).body for a file whose statements have the given shapes
ParseBody(shapes, lead) ==
    [j \in 1..Len(shapes) |-> Locate(shapes[j], lead + 1 + HeightSum(shapes, j - 1), 0)]


(***************************************************************************)
(* difflib.SequenceMatcher(None, a, b).ratio(), as the search calls it:    *)
(* no junk predicate, autojunk on.  Indices are Python's (from 0).         *)
(***************************************************************************)
At(s, i) == s[i + 1]

Max(S) == CHOOSE x \in S : \A y \in S : x >= y
Min(S) == CHOOSE x \in S : \A y \in S : x <= y

\* Loops over the characters of a dump are evaluated Stride iterations per
\* recursion step; the result does not depend on Stride.
Stride == 32

\* __chain_b: element -> indices in b, without the "popular" elements
\* (more than n // 100 + 1 occurrences, when n >= 200)
ChainB(b) ==
    LET n == Len(b)
        all == [c \in SeqToSet(b) |-> {j \in 0..(n - 1) : At(b, j) = c}]
        popular == IF n >= 200
                   THEN {c \in DOMAIN all : Cardinality(all[c]) > n \div 100 + 1}
                   ELSE {}
    IN  [c \in DOMAIN all \ popular |-> all[c]]

\* find_longest_match(alo, ahi, blo, bhi) -> <<besti, bestj, bestsize>>
find_longest_match(a, b, b2j, alo, ahi, blo, bhi) ==
    LET \* j2len has an entry for j at i: a[i] = b[j], b[j] kept in b2j
        Hit(i, j) == /\ alo <= i /\ i < ahi /\ blo <= j /\ j < bhi
                     /\ At(a, i) \in DOMAIN b2j
                     /\ At(a, i) = At(b, j)
        \* j2len[j] at i: the number of consecutive hits ending at (i, j),
        \* counted Stride at a time
        HitsBack(i, j, cap) == Min({t \in 0..cap : t = cap \/ ~Hit(i - t, j - t)})
        RECURSIVE J2Len(_, _)
        J2Len(i, j) == LET t == HitsBack(i, j, Stride)
                       IN  IF t = Stride THEN Stride + J2Len(i - Stride, j - Stride)
                           ELSE t
        \* the entries that no later entry extends
        ends == UNION {{<<i, j>> : j \in {j \in b2j[At(a, i)] :
                                            /\ blo <= j /\ j < bhi
                                            /\ ~Hit(i + 1, j + 1)}} :
                       i \in {i \in alo..(ahi - 1) : At(a, i) \in DOMAIN b2j}}
        scored == {<<J2Len(e[1], e[2]), e[1], e[2]>> : e \in ends}
        \* "if k > bestsize": the first entry, in loop order, of greatest k
        kmax == Max({s[1] : s \in scored})
        imin == Min({s[2] : s \in {t \in scored : t[1] = kmax}})
        jmin == Min({s[3] : s \in {t \in scored : t[1] = kmax /\ t[2] = imin}})
        start == IF scored = {} THEN <<alo, blo, 0>>
                 ELSE <<imin - kmax + 1, jmin - kmax + 1, kmax>>
        \* the two "while ... a[..] == b[..]" loops that grow the match (no
        \* element is junk), run Stride iterations at a time
        SameBack(m, cap) ==
            Min({t \in 0..cap : \/ t = cap
                                \/ ~(/\ m[1] - t > alo /\ m[2] - t > blo
                                     /\ At(a, m[1] - t - 1) = At(b, m[2] - t - 1))})
        RECURSIVE Back(_)
        Back(m) == LET t == SameBack(m, Stride)
                       m2 == <<m[1] - t, m[2] - t, m[3] + t>>
                   IN  IF t = Stride THEN Back(m2) ELSE m2
        SameForth(m, cap) ==
            Min({t \in 0..cap : \/ t = cap
                                \/ ~(/\ m[1] + m[3] + t < ahi /\ m[2] + m[3] + t < bhi
                                     /\ At(a, m[1] + m[3] + t) = At(b, m[2] + m[3] + t))})
        RECURSIVE Forth(_)
        Forth(m) == LET t == SameForth(m, Stride)
                       m2 == <<m[1], m[2], m[3] + t>>
                   IN  IF t = Stride THEN Forth(m2) ELSE m2
    IN  Forth(Back(start))

\* sum of the sizes of get_matching_blocks()
RECURSIVE MatchTotal(_, _, _, _, _, _, _)
MatchTotal(a, b, b2j, alo, ahi, blo, bhi) ==
    LET m == find_longest_match(a, b, b2j, alo, ahi, blo, bhi)
        i == m[1]
        j == m[2]
        k == m[3]
    IN  IF k = 0 THEN 0
        ELSE k + (IF alo < i /\ blo < j
                  THEN MatchTotal(a, b, b2j, alo, i, blo, j) ELSE 0)
               + (IF i + k < ahi /\ j + k < bhi
                  THEN MatchTotal(a, b, b2j, i + k, ahi, j + k, bhi) ELSE 0)

\* ratio() = 2.0 * matches / (len(a) + len(b)), 1.0 for two empty
\* sequences, kept as the exact fraction <<numerator, denominator>> in
\* lowest terms (two ratios are the same float iff they are the same fraction)
RECURSIVE GCD(_, _)
GCD(x, y) == IF y = 0 THEN x ELSE GCD(y, x % y)

Ratio(a, b) ==
    IF Len(a) + Len(b) = 0 THEN <<1, 1>>
    ELSE LET num == 2 * MatchTotal(a, b, ChainB(b), 0, Len(a), 0, Len(b))
             den == Len(a) + Len(b)
             g == GCD(num, den)
         IN  <<num \div g, den \div g>>

\* as FracGeq, with > for >=
FracGreater(r, t) == r[1] * t[2] > t[1] * r[2]

\* r >= t for fractions with positive denominators
FracGeq(r, t) == r[1] * t[2] >= t[1] * r[2]


(***************************************************************************)
(* Paths: a path is a sequence of components, a component is text          *)
(***************************************************************************)
\* the characters paths are written with, by code point
CodeOrder == <<"-", ".", "/", "0", "1", "2", "3", "4", "5", "6", "7", "8", "9", "A", "B", "_", "a", "b", "c", "d", "e", "f", "g", "h", "i", "j", "k", "l", "m", "n", "o", "p", "q", "r", "s", "t", "u", "v", "w", "x", "y", "z">>

Ord(c) == CHOOSE i \in 1..Len(CodeOrder) : CodeOrder[i] = c

\* str < str
TextLess(s, t) ==
    \E k \in 1..(Len(t)) :
        /\ k <= Len(s) + 1
        /\ \A m \in 1..(k - 1) : s[m] = t[m]
        /\ (k = Len(s) + 1 \/ Ord(s[k]) < Ord(t[k]))

\* PurePath.__lt__: the lists of components are compared
PathLess(p, q) ==
    \E k \in 1..(Len(q)) :
        /\ k <= Len(p) + 1
        /\ \A m \in 1..(k - 1) : p[m] = q[m]
        /\ (k = Len(p) + 1 \/ TextLess(p[k], q[k]))

\* sorted(xs, key=...) / list.sort: stable, Before is the strict order
StableSort(xs, Before(_, _)) ==
    LET n == Len(xs)
        rank(i) == 1 + Cardinality({j \in 1..n :
                        \/ Before(xs[j], xs[i])
                        \/ (~Before(xs[i], xs[j]) /\ j < i)})
        ranks == [i \in 1..n |-> rank(i)] \o <<>>
    IN  [p \in 1..n |-> xs[CHOOSE i \in 1..n : ranks[i] = p]]

LowerChar(c) == CASE c = "A" -> "a" [] c = "B" -> "b" [] OTHER -> c
Lower(s) == [i \in 1..Len(s) |-> LowerChar(s[i])]

ExcludedDirs == {<<".","g","i","t">>, <<"_","_","p","y","c","a","c","h","e","_","_">>,
                 <<".","v","e","n","v">>, <<"v","e","n","v">>,
                 <<"s","i","t","e","-","p","a","c","k","a","g","e","s">>}

EndsWithPy(name) ==
    /\ Len(name) >= 3
    /\ SubSeq(name, Len(name) - 2, Len(name)) = <<".", "p", "y">>


(***************************************************************************)
(* The inputs the model is run on                                          *)
(***************************************************************************)
Repeat(c, n) == [i \in 1..n |-> c]

Load(id) == NameE(id, "Load")

\* def duplicate(): return 42
ShDuplicate == DefS("FunctionDef", <<"d","u","p","l","i","c","a","t","e">>, Args(<<>>), <<ReturnS(IntE(42))>>)
\* def other(): return 4 + 3
ShOther == DefS("FunctionDef", <<"o","t","h","e","r">>, Args(<<>>), <<ReturnS(AddE(IntE(4), IntE(3)))>>)
\* def f1(x): y = x + 1; return y
ShF1 == DefS("FunctionDef", <<"f","1">>, Args(<<ArgN(<<"x">>)>>),
             <<AssignS(<<"y">>, AddE(Load(<<"x">>), IntE(1))), ReturnS(Load(<<"y">>))>>)
\* def f2(z): q = z + 2; return q
ShF2 == DefS("FunctionDef", <<"f","2">>, Args(<<ArgN(<<"z">>)>>),
             <<AssignS(<<"q">>, AddE(Load(<<"z">>), IntE(2))), ReturnS(Load(<<"q">>))>>)
\* def g(a): b = a + 1; return b      (f1 with other identifiers)
ShG == DefS("FunctionDef", <<"g">>, Args(<<ArgN(<<"a">>)>>),
            <<AssignS(<<"b">>, AddE(Load(<<"a">>), IntE(1))), ReturnS(Load(<<"b">>))>>)
\* def p(a, /): return a     and     def r(b, /): return b
ShP == DefS("FunctionDef", <<"p">>, Params(<<ArgN(<<"a">>)>>, <<>>, NoneNode, <<>>, NoneNode),
            <<ReturnS(Load(<<"a">>))>>)
ShR == DefS("FunctionDef", <<"r">>, Params(<<ArgN(<<"b">>)>>, <<>>, NoneNode, <<>>, NoneNode),
            <<ReturnS(Load(<<"b">>))>>)
\* def s(): return 'a'       and     def t(): return 'aaa...a' (121 times)
ShS == DefS("FunctionDef", <<"s">>, Args(<<>>), <<ReturnS(StrE(Repeat("a", 1)))>>)
ShT == DefS("FunctionDef", <<"t">>, Args(<<>>), <<ReturnS(StrE(Repeat("a", 121)))>>)
\* class K: def duplicate(): return 42     (a method)
ShK == ClassS(<<"K">>, <<ShDuplicate>>)
\* h = lambda: 42
ShH == AssignS(<<"h">>, LambdaE(<<>>, IntE(42)))
\* def outer(): def duplicate(): return 42; return 1     (a nested function)
ShOuter == DefS("FunctionDef", <<"o","u","t","e","r">>, Args(<<>>),
                <<ShDuplicate, ReturnS(IntE(1))>>)
\* async def duplicate(): return 42
ShAsync == DefS("AsyncFunctionDef", <<"d","u","p","l","i","c","a","t","e">>, Args(<<>>),
                <<ReturnS(IntE(42))>>)
\* def deep(): return ----...1    (1000 minus signs: the parser accepts
\* it, ast.dump and copy.deepcopy exceed the recursion limit on it)
ShDeep == DefS("FunctionDef", <<"d","e","e","p">>, Args(<<>>),
               <<ReturnS(NegE(1000, IntE(1)))>>)

\* The files a scanned tree may hold: path below the root, its leading
\* blank lines and its statements, and what reading and parsing it does:
\*   "ok"               read_text and ast.parse succeed
\*   "unreadable"       read_text raises (OSError, UnicodeDecodeError)
\*   "syntax_error"     ast.parse raises SyntaxError
\*   "recursion_error"  ast.parse raises RecursionError (source nested too
\*                      deep for the parser, e.g. some thousand unary minus)
SourceFile(path, status, lead, shapes) ==
    [path |-> path, status |-> status, lead |-> lead, shapes |-> shapes]

FileCatalogue ==
    { SourceFile(<<<<"a",".","p","y">>>>, "ok", 0, <<ShDuplicate>>),
      SourceFile(<<<<"b",".","p","y">>>>, "ok", 2, <<ShDuplicate, ShF2>>),
      SourceFile(<<<<"c",".","p","y">>>>, "ok", 0, <<ShOther, ShF1>>),
      SourceFile(<<<<"p","k","g",".","p","y">>>>, "ok", 1, <<ShG, ShS, ShAsync>>),
      SourceFile(<<<<"p","k","g">>, <<"e",".","p","y">>>>, "ok", 0, <<ShT, ShP>>),
      SourceFile(<<<<"p","k","g">>, <<"g",".","p","y">>>>, "ok", 3, <<ShR, ShOuter>>),
      SourceFile(<<<<"0",".","p","y">>>>, "ok", 0, <<ShK, ShH, ShF2, ShDuplicate>>),
      SourceFile(<<<<"n",".","p","y">>>>, "ok", 0, <<ShDuplicate, ShDeep>>),
      SourceFile(<<<<"p","k","g">>, <<"v","e","n","v">>, <<"x",".","p","y">>>>, "ok", 0,
                 <<ShDuplicate>>),
      SourceFile(<<<<"u",".","p","y">>>>, "unreadable", 0, <<>>),
      SourceFile(<<<<"b","a","d",".","p","y">>>>, "syntax_error", 0, <<>>),
      SourceFile(<<<<"d","e","e","p",".","p","y">>>>, "recursion_error", 0, <<>>) }

\* at most MaxFiles files in the scanned tree
MaxFiles == 3

FileSets == {F \in SUBSET FileCatalogue : Cardinality(F) <= MaxFiles}

\* One file of n copies of `def duplicate(): return 42`: the near tool
\* finds n(n-1)/2 pairs of ratio 1 in it, the exact tool one group of n.
ManyFile(n) == SourceFile(<<<<"m",".","p","y">>>>, "ok", 0, [i \in 1..n |-> ShDuplicate])

\* at most MaxCopies copies (528 pairs, more than the JSON report lists)
MaxCopies == 33

\* def w(x): return x + 1       (dump of 240 characters)
ShW == DefS("FunctionDef", <<"w">>, Args(<<ArgN(<<"x">>)>>),
            <<ReturnS(AddE(Load(<<"x">>), IntE(1)))>>)
\* def <name>(): return 'aaa...a' (n times): a dump of 169 + n characters
ShL(name, n) == DefS("FunctionDef", name, Args(<<>>), <<ReturnS(StrE(Repeat("a", n)))>>)

\* def nest(): return ----...1    (250 minus signs: ast.dump works on it,
\* copy.deepcopy exceeds the recursion limit)
ShNest == DefS("FunctionDef", <<"n","e","s","t">>, Args(<<>>),
               <<ReturnS(NegE(250, IntE(1)))>>)

\* Files whose functions have dumps of chosen lengths: l.py has the
\* lengths 359, 360, 480 and 486 (buckets 2, 3, 4, 4), k.py the lengths
\* 359, 480, 719 and 960 (buckets 2, 4, 5, 8), w.py the length 240
\* (bucket 2); and x.py, with nest twice and duplicate twice.
BoundaryCatalogue ==
    { SourceFile(<<<<"x",".","p","y">>>>, "ok", 0,
                 <<ShNest, ShDuplicate, ShNest, ShDuplicate>>) } \cup
    { SourceFile(<<<<"l",".","p","y">>>>, "ok", 0,
                 <<ShL(<<"l","a">>, 190), ShL(<<"l","b">>, 191),
                   ShL(<<"l","c">>, 311), ShL(<<"l","d">>, 317)>>),
      SourceFile(<<<<"k",".","p","y">>>>, "ok", 0,
                 <<ShL(<<"k","a">>, 190), ShL(<<"k","b">>, 311),
                   ShL(<<"k","c">>, 550), ShL(<<"k","d">>, 791)>>),
      SourceFile(<<<<"w",".","p","y">>>>, "ok", 0, <<ShW>>) }

\* the trees of one or two of these files, alone or next to c.py
BoundaryTrees ==
    {F \cup G : F \in (SUBSET BoundaryCatalogue) \ {{}},
                G \in SUBSET {f \in FileCatalogue : f.path = <<<<"c",".","p","y">>>>}}

\* The trees of the runs with long results: a file of 21 copies (210
\* pairs, more than the Markdown report lists) or of MaxCopies copies,
\* the trees of at most one file of the catalogue, and the trees with
\* dumps of chosen lengths.
LongTrees ==
    {{ManyFile(n)} : n \in {21, MaxCopies}}
        \cup {F \in SUBSET FileCatalogue : Cardinality(F) <= 1}
        \cup BoundaryTrees

\* --threshold values, as fractions; the default is 0.75
DefaultThreshold == <<3, 4>>
Thresholds == {<<1, 2>>, <<3, 4>>, <<1, 1>>}

Tools == {"exact", "near"}


\* the resolved --root of a run: /srv/proj or /srv/venv/proj
PlainRoot == << <<"/">>, <<"s","r","v">>, <<"p","r","o","j">> >>
Roots == {PlainRoot, << <<"/">>, <<"s","r","v">>, <<"v","e","n","v">>, <<"p","r","o","j">> >>}

(***************************************************************************)
(* Both tools: file discovery                                              *)
(***************************************************************************)
VARIABLE root     \* the parts of Path(args.root).resolve()

\* as iter_py_files, looking only at the directory right below the root
iter_py_files_first_level(tree) ==
    {f \in tree :
        /\ EndsWithPy(f.path[Len(f.path)])
        /\ Lower(f.path[1]) \notin ExcludedDirs}

\* p.parts for the file f: rglob yields paths that start with the root,
\* which main() has resolved to an absolute path (lines 127, 177)
Parts(f) == root \o f.path

\* iter_py_files(root) for a directory root: the files rglob("*.py") yields
\* that have none of the excluded names among their parts (the order is
\* rglob's)
iter_py_files(tree) ==
    {f \in tree :
        /\ EndsWithPy(f.path[Len(f.path)])
        /\ ~\E i \in 1..Len(Parts(f)) : Lower(Parts(f)[i]) \in ExcludedDirs}

\* the orders in which a set can be enumerated
Listings(S) ==
    {l \in [1..Cardinality(S) -> S] : \A i, j \in 1..Cardinality(S) : l[i] = l[j] => i = j}

\* as SortedFiles, without the sort
UnsortedFiles(listing) == listing

\* sorted(iter_py_files(root))
SortedFiles(listing) == StableSort(listing, LAMBDA f, g : PathLess(f.path, g.path))

\* str(fp.relative_to(root)).replace("\\", "/")
RelPath(f) == Join(f.path, <<"/">>)

IsFunctionDef(node) == node.kind \in {"FunctionDef", "AsyncFunctionDef"}

\* as TopLevelDefs, looking through the whole tree (ast.walk(mod))
AllDefs(body) ==
    SelectSeq(FlattenSeq([i \in 1..Len(body) |-> walk(body[i])]), IsFunctionDef)

\* "for node in mod.body: if isinstance(node, (FunctionDef, AsyncFunctionDef))":
\* lines 85-86 (exact), 134-135 (near)
TopLevelDefs(body) == SelectSeq(body, IsFunctionDef)

\* src = read_text(); mod = ast.parse(src): <<ok, mod.body>>
ReadAndParse(f) ==
    IF f.status = "ok" THEN <<TRUE, ParseBody(f.shapes, f.lead)>> ELSE <<FALSE, <<>> >>

\* extract_functions catches Exception around read_text but only SyntaxError
\* around ast.parse (lines 75-83), and nothing around normalized_ast_dump
\* (line 88); collect_functions catches Exception around read_text and
\* ast.parse (lines 128-132) and normalized_function_body_dump catches it
\* around deepcopy and ast.dump
Propagates(t, f) ==
    /\ t = "exact"
    /\ \/ f.status = "recursion_error"
       \/ /\ f.status = "ok"
          /\ \E i \in 1..Len(f.shapes) :
                IsFunctionDef(f.shapes[i]) /\ DumpRaises(f.shapes[i])

(***************************************************************************)
(* find_duplicate_functions.py                                             *)
(***************************************************************************)
\* as FunctionEntry, hashing the name-agnostic dump of the near tool
FunctionEntryNameAgnostic(node) ==
    LET after == StripPositions(node)
    IN  [name |-> after.name,
         lineno |-> IF HasAttr(after, "lineno") THEN after.lineno ELSE NoPos,
         hash |-> hash_text(normalized_function_body_dump(node))]

\* One iteration of the loop of extract_functions.  normalized_ast_dump has
\* cleared the position attributes of node itself before the dict is built.
FunctionEntry(node) ==
    LET dump == normalized_ast_dump(node)
        after == StripPositions(node)
    IN  [name |-> after.name,
         lineno |-> IF HasAttr(after, "lineno") THEN after.lineno ELSE NoPos,
         hash |-> hash_text(dump)]

extract_functions(f) ==
    LET parsed == ReadAndParse(f)
        defs == TopLevelDefs(parsed[2])
    IN  IF ~parsed[1] THEN <<>>
        ELSE [i \in 1..Len(defs) |-> FunctionEntry(defs[i])]

\* func_index[h].append(occ) on a defaultdict(list); the index is kept as
\* the sequence of its items in insertion order
IndexAppend(index, h, occ) ==
    IF \E i \in 1..Len(index) : index[i].key = h
    THEN [i \in 1..Len(index) |->
            IF index[i].key = h
            THEN [index[i] EXCEPT !.value = Append(@, occ)] ELSE index[i]]
    ELSE Append(index, [key |-> h, value |-> <<occ>>])

RECURSIVE IndexFile(_, _, _)
IndexFile(index, rel, fs) ==
    IF fs = <<>> THEN index
    ELSE IndexFile(IndexAppend(index, Head(fs).hash,
                               [path |-> rel, name |-> Head(fs).name,
                                lineno |-> Head(fs).lineno]),
                   rel, Tail(fs))

\* as Qualifies, with the comparison off by one
QualifiesSingle(occurrences) == Len(occurrences) > 0

\* lines 142-147
Qualifies(occurrences) == Len(occurrences) > 1

\* as DuplicateGroups, without the sort of line 147
DuplicateGroupsUnsorted(index) ==
    LET kept == SelectSeq(index, LAMBDA e : Qualifies(e.value))
    IN  [i \in 1..Len(kept) |->
            [function_hash |-> kept[i].key, occurrences |-> kept[i].value]]

DuplicateGroups(index) ==
    LET kept == SelectSeq(index, LAMBDA e : Qualifies(e.value))
        groups == [i \in 1..Len(kept) |->
                    [function_hash |-> kept[i].key, occurrences |-> kept[i].value]]
    IN  StableSort(groups, LAMBDA d, e : Len(d.occurrences) > Len(e.occurrences))

(***************************************************************************)
(* find_near_duplicate_functions.py                                        *)
(***************************************************************************)
\* as FileRecords, with the normalization done on the parsed node itself
\* instead of a deep copy: name and lineno are read after it
FileRecordsInPlace(f) ==
    LET parsed == ReadAndParse(f)
        defs == TopLevelDefs(parsed[2])
        recs == [i \in 1..Len(defs) |->
                    LET dump == normalized_function_body_dump(defs[i])
                        after == IF dump = <<>> THEN defs[i] ELSE NormalizedCopy(defs[i])
                    IN  [path |-> RelPath(f), name |-> after.name,
                         lineno |-> IF HasAttr(after, "lineno") THEN after.lineno
                                    ELSE NoPos,
                         normalized_dump |-> dump]]
    IN  IF ~parsed[1] THEN <<>>
        ELSE SelectSeq(recs, LAMBDA r : r.normalized_dump # <<>>)

\* collect_functions, the records of one file
FileRecords(f) ==
    LET parsed == ReadAndParse(f)
        defs == TopLevelDefs(parsed[2])
        recs == [i \in 1..Len(defs) |->
                    [path |-> RelPath(f), name |-> defs[i].name,
                     lineno |-> IF HasAttr(defs[i], "lineno") THEN defs[i].lineno
                                ELSE NoPos,
                     normalized_dump |-> normalized_function_body_dump(defs[i])]]
    IN  IF ~parsed[1] THEN <<>>
        ELSE SelectSeq(recs, LAMBDA r : r.normalized_dump # <<>>)

\* lines 188-190: key -> records, for the keys that have records
Buckets(fs) ==
    [k \in {bucket_key(fs[i].normalized_dump) : i \in 1..Len(fs)} |->
        SelectSeq(fs, LAMBDA f : bucket_key(f.normalized_dump) = k)]

BucketGet(bs, k) == IF k \in DOMAIN bs THEN bs[k] ELSE <<>>

\* sorted(buckets.keys())
SortedKeys(bs) == StableSort(
    LET RECURSIVE Enum(_)
        Enum(S) == IF S = {} THEN <<>>
                   ELSE LET x == CHOOSE x \in S : TRUE IN <<x>> \o Enum(S \ {x})
    IN  Enum(DOMAIN bs), LAMBDA x, y : x < y)

\* as Candidates, with the records of bucket k only
CandidatesOwnBucket(bs, k) == bs[k]

\* as Candidates, without the preceding bucket
CandidatesForward(bs, k) == bs[k] \o BucketGet(bs, k + 1)

\* line 195
Candidates(bs, k) == bs[k] \o BucketGet(bs, k - 1) \o BucketGet(bs, k + 1)

\* as SameOccurrence, taking two records of one file for one function
SameOccurrenceByPath(a, b) == a.path = b.path

\* line 201
SameOccurrence(a, b) == a.path = b.path /\ a.lineno = b.lineno

\* d > m * 0.35 for integers d, m >= 0, in IEEE double arithmetic.  The
\* double written 0.35 is a little less than 7/20, so when 7m/20 is an
\* integer N the product is rounded either to N or to the double just
\* below N; it is the latter exactly when no power of two lies in
\* [4m/20, N].  Otherwise the comparison is that of the exact values.
RECURSIVE Pow2Floor(_)
Pow2Floor(n) == IF n < 2 THEN 1 ELSE 2 * Pow2Floor(n \div 2)

ExceedsTimes035(d, m) ==
    IF m > 0 /\ m % 20 = 0 /\ Pow2Floor((7 * m) \div 20) < (4 * m) \div 20
    THEN d >= (7 * m) \div 20
    ELSE d * 100 > m * 35

\* as LengthFilter, with >= for >
LengthFilterInclusive(la, lb) ==
    LET d == IF la >= lb THEN la - lb ELSE lb - la
        m == IF la <= lb THEN la ELSE lb
    IN  d >= 120 /\ (ExceedsTimes035(d, m) \/ d * 100 = m * 35)

\* as LengthFilter, skipping no pair
LengthFilterOff(la, lb) == FALSE

\* line 206: abs(la - lb) > max(120, min(la, lb) * 0.35)
LengthFilter(la, lb) ==
    LET d == IF la >= lb THEN la - lb ELSE lb - la
        m == IF la <= lb THEN la ELSE lb
    IN  d > 120 /\ ExceedsTimes035(d, m)

\* as PairOrder, with the inner loop starting at i and no same-occurrence test
PairOrderFromI(cands) ==
    LET L == Len(cands)
        all == [n \in 1..(L * L) |-> <<((n - 1) \div L) + 1, ((n - 1) % L) + 1>>]
    IN  SelectSeq(all, LAMBDA ij : ij[1] <= ij[2])

\* lines 196-202: the index pairs <<i, j>> the two loops reach past the
\* same-occurrence test, in loop order
PairOrder(cands) ==
    LET L == Len(cands)
        all == [n \in 1..(L * L) |-> <<((n - 1) \div L) + 1, ((n - 1) % L) + 1>>]
    IN  SelectSeq(all, LAMBDA ij : ij[1] < ij[2]
                                   /\ ~SameOccurrence(cands[ij[1]], cands[ij[2]]))

\* lines 204-207: the pairs whose ratio is computed
ComparedPairs(cands) ==
    SelectSeq(PairOrder(cands),
              LAMBDA ij : ~LengthFilter(Len(cands[ij[1]].normalized_dump),
                                        Len(cands[ij[2]].normalized_dump)))


\* The ratios of the dumps of the catalogue, evaluated once, for the dumps
\* that lines 195-207 let through to line 209: two dumps of one candidate
\* list, so with keys at most 2 apart, that pass the length filter or are
\* 120 or fewer characters apart.  RatioOf is Ratio read from this table
\* (every dump of a run is one of the catalogue).
CatalogueDumps ==
    UNION {{normalized_function_body_dump(Locate(f.shapes[i], 1, 0)) :
                i \in 1..Len(f.shapes)} : f \in FileCatalogue \cup BoundaryCatalogue} \ {<<>>}

RatioTable ==
    {<<ab[1], ab[2], Ratio(ab[1], ab[2])>> :
        ab \in {cd \in CatalogueDumps \X CatalogueDumps :
                  /\ bucket_key(cd[1]) - bucket_key(cd[2]) \in -2..2
                  /\ \/ ~LengthFilter(Len(cd[1]), Len(cd[2]))
                     \/ Len(cd[1]) - Len(cd[2]) \in -120..120}}

RatioOf(a, b) == (CHOOSE t \in RatioTable : t[1] = a /\ t[2] = b)[3]

\* lines 196-211 for one candidate list: the pairs appended, in order
WindowPairs(cands, thr) ==
    LET cp == ComparedPairs(cands)
        scored == [n \in 1..Len(cp) |->
                     [a |-> cands[cp[n][1]], b |-> cands[cp[n][2]],
                      ratio |-> RatioOf(cands[cp[n][1]].normalized_dump,
                                        cands[cp[n][2]].normalized_dump)]]
    IN  SelectSeq(scored, LAMBDA pr : FracGeq(pr.ratio, thr))

\* as SortPairs, with pairs of equal ratio in the reverse of their order
SortPairsTiesReversed(ps) ==
    StableSort([i \in 1..Len(ps) |-> ps[Len(ps) + 1 - i]],
               LAMBDA x, y : x.ratio[1] * y.ratio[2] > y.ratio[1] * x.ratio[2])

\* line 213
SortPairs(ps) == StableSort(ps, LAMBDA x, y : x.ratio[1] * y.ratio[2] > y.ratio[1] * x.ratio[2])

(***************************************************************************)
(* The run of a tool as a state machine                                    *)
(***************************************************************************)
VARIABLES
    tool,         \* which script runs
    root_exists,  \* whether --root names an existing path
    files,        \* the files below the root
    threshold,    \* --threshold
    clock,        \* the time utc_now_iso() reads
    run,          \* 1 for the first run on the tree, 2 for the second
    pc,           \* position in main()
    out_dir,      \* whether the output directory exists
    todo,         \* sorted files not yet scanned
    func_index,   \* exact tool: hash -> occurrences, in insertion order
    funcs,        \* near tool: the records collected so far
    keys,         \* near tool: sorted(buckets.keys())
    ki,           \* near tool: index into keys of the next bucket
    pairs,        \* near tool: the pairs list
    dupes,        \* exact tool: the groups list
    json_report,  \* the JSON report written, <<>> before
    md_report,    \* the Markdown report written, <<>> before
    exit_status,  \* "running", "0", the SystemExit message or "Traceback"
    prev          \* the reports of the first run, <<>> during it

vars == <<tool, root, root_exists, files, threshold, clock, run, pc, out_dir, todo,
          func_index, funcs, keys, ki, pairs, dupes, json_report, md_report,
          exit_status, prev>>

inputs == <<tool, root, root_exists, files, threshold>>

Fresh ==
    /\ pc = "start"
    /\ todo = <<>>
    /\ func_index = <<>>
    /\ funcs = <<>>
    /\ keys = <<>>
    /\ ki = 1
    /\ pairs = <<>>
    /\ dupes = <<>>
    /\ json_report = <<>>
    /\ md_report = <<>>
    /\ exit_status = "running"

Init ==
    /\ tool \in Tools
    /\ root = PlainRoot
    /\ root_exists \in BOOLEAN
    /\ files \in FileSets
    /\ threshold \in (IF tool = "near" THEN Thresholds ELSE {DefaultThreshold})
    /\ clock = 1
    /\ run = 1
    /\ out_dir = FALSE
    /\ prev = <<>>
    /\ Fresh

\* as Init, for the trees with long results
InitLong ==
    /\ tool \in Tools
    /\ root \in Roots
    /\ root_exists \in BOOLEAN
    /\ files \in LongTrees
    /\ threshold \in (IF tool = "near" THEN Thresholds ELSE {DefaultThreshold})
    /\ clock = 1
    /\ run = 1
    /\ out_dir = FALSE
    /\ prev = <<>>
    /\ Fresh

\* lines 127-133 (exact), 177-183 (near)
CheckRoot ==
    /\ pc = "start"
    /\ IF ~root_exists
       THEN /\ pc' = "aborted"
            /\ exit_status' = "Root not found"
            /\ UNCHANGED out_dir
       ELSE /\ pc' = "list"
            /\ out_dir' = TRUE
            /\ UNCHANGED exit_status
    /\ UNCHANGED <<inputs, clock, run, todo, func_index, funcs, keys, ki, pairs,
                   dupes, json_report, md_report, prev>>

\* sorted(iter_py_files(root)): line 137 (exact), line 126 (near)
ListFiles ==
    /\ pc = "list"
    /\ \E listing \in Listings(iter_py_files(files)) :
            todo' = SortedFiles(listing)
    /\ pc' = "scan"
    /\ UNCHANGED <<inputs, clock, run, out_dir, func_index, funcs, keys, ki, pairs,
                   dupes, json_report, md_report, exit_status, prev>>

\* The scan with one name counter for the whole run instead of one per
\* function: the counter of a function starts where the functions
\* normalized before it left it.
VarCount(node) ==
    Cardinality(DOMAIN BuildNameMap(
        walk([node EXCEPT !.name = Spell("FUNC"), !.args = RenameParams(node.args)]),
        BuildArgMap(node.args), EmptyDict, 0))

RECURSIVE VarCountSum(_, _)
VarCountSum(defs, k) ==
    IF k = 0 THEN 0 ELSE VarCountSum(defs, k - 1) + VarCount(defs[k])

NormalizedDumpFrom(node, start) ==
    IF CopyRaises(node) \/ DumpRaises(node) THEN <<>>
    ELSE LET arg_map == BuildArgMap(node.args)
             n == [node EXCEPT !.name = Spell("FUNC"), !.args = RenameParams(node.args)]
             name_map == BuildNameMap(walk(n), arg_map, EmptyDict, start)
         IN  ast_dump(StripPositions(RenameIdents(n, arg_map, name_map)), FALSE)

FileRecordsFrom(f, start) ==
    LET parsed == ReadAndParse(f)
        defs == TopLevelDefs(parsed[2])
        recs == [i \in 1..Len(defs) |->
                    [path |-> RelPath(f), name |-> defs[i].name,
                     lineno |-> IF HasAttr(defs[i], "lineno") THEN defs[i].lineno
                                ELSE NoPos,
                     normalized_dump |->
                        NormalizedDumpFrom(defs[i], start + VarCountSum(defs, i - 1))]]
    IN  IF ~parsed[1] THEN <<>>
        ELSE SelectSeq(recs, LAMBDA r : r.normalized_dump # <<>>)

RECURSIVE VarCountOfFiles(_)
VarCountOfFiles(S) ==
    IF S = {} THEN 0
    ELSE LET f == CHOOSE f \in S : TRUE
             parsed == ReadAndParse(f)
             defs == TopLevelDefs(parsed[2])
         IN  (IF parsed[1] THEN VarCountSum(defs, Len(defs)) ELSE 0)
                + VarCountOfFiles(S \ {f})

ScanFileSharedCounter ==
    /\ pc = "scan"
    /\ todo # <<>>
    /\ ~Propagates(tool, Head(todo))
    /\ IF tool = "exact"
       THEN /\ func_index' = IndexFile(func_index, RelPath(Head(todo)),
                                       extract_functions(Head(todo)))
            /\ UNCHANGED funcs
       ELSE /\ funcs' = funcs \o FileRecordsFrom(Head(todo),
                                VarCountOfFiles(iter_py_files(files) \ SeqToSet(todo)))
            /\ UNCHANGED func_index
    /\ todo' = Tail(todo)
    /\ UNCHANGED <<inputs, clock, run, pc, out_dir, keys, ki, pairs, dupes,
                   json_report, md_report, exit_status, prev>>

\* one iteration of the loop over the files: lines 137-140 (exact), 126-139 (near)
ScanFile ==
    /\ pc = "scan"
    /\ todo # <<>>
    /\ ~Propagates(tool, Head(todo))
    /\ IF tool = "exact"
       THEN /\ func_index' = IndexFile(func_index, RelPath(Head(todo)),
                                       extract_functions(Head(todo)))
            /\ UNCHANGED funcs
       ELSE /\ funcs' = funcs \o FileRecords(Head(todo))
            /\ UNCHANGED func_index
    /\ todo' = Tail(todo)
    /\ UNCHANGED <<inputs, clock, run, pc, out_dir, keys, ki, pairs, dupes,
                   json_report, md_report, exit_status, prev>>

\* an exception leaves main(): the interpreter prints the traceback and
\* exits with status 1
ScanFileRaises ==
    /\ pc = "scan"
    /\ todo # <<>>
    /\ Propagates(tool, Head(todo))
    /\ pc' = "crashed"
    /\ exit_status' = "Traceback"
    /\ UNCHANGED <<inputs, clock, run, out_dir, todo, func_index, funcs, keys, ki,
                   pairs, dupes, json_report, md_report, prev>>

\* exact tool, lines 142-147
GroupDuplicates ==
    /\ pc = "scan"
    /\ todo = <<>>
    /\ tool = "exact"
    /\ dupes' = DuplicateGroups(func_index)
    /\ pc' = "report"
    /\ UNCHANGED <<inputs, clock, run, out_dir, todo, func_index, funcs, keys, ki,
                   pairs, json_report, md_report, exit_status, prev>>

\* near tool, lines 188-193
MakeBuckets ==
    /\ pc = "scan"
    /\ todo = <<>>
    /\ tool = "near"
    /\ keys' = SortedKeys(Buckets(funcs))
    /\ ki' = 1
    /\ pc' = "search"
    /\ UNCHANGED <<inputs, clock, run, out_dir, todo, func_index, funcs, pairs,
                   dupes, json_report, md_report, exit_status, prev>>

\* near tool, one iteration of "for k in keys": lines 194-211
SearchBucket ==
    /\ pc = "search"
    /\ ki <= Len(keys)
    /\ pairs' = pairs \o WindowPairs(Candidates(Buckets(funcs), keys[ki]), threshold)
    /\ ki' = ki + 1
    /\ UNCHANGED <<inputs, clock, run, pc, out_dir, todo, func_index, funcs, keys,
                   dupes, json_report, md_report, exit_status, prev>>

\* near tool, line 213
FinishSearch ==
    /\ pc = "search"
    /\ ki > Len(keys)
    /\ pairs' = SortPairs(pairs)
    /\ pc' = "report"
    /\ UNCHANGED <<inputs, clock, run, out_dir, todo, func_index, funcs, keys, ki,
                   dupes, json_report, md_report, exit_status, prev>>

Take(s, n) == SubSeq(s, 1, IF Len(s) < n THEN Len(s) ELSE n)

\* exact tool, lines 149-154: the JSON payload
ExactPayload(groups, now) ==
    [generated_at_utc |-> now, duplicate_groups |-> Len(groups), groups |-> groups]

\* exact tool, write_markdown: the header count and the groups listed
ExactMarkdown(groups, now) ==
    [generated_at |-> now, count |-> Len(groups), listed |-> groups]

\* as NearPayload, with the cap of the Markdown listing
NearPayloadShortList(ps, thr, now) ==
    [generated_at_utc |-> now, threshold |-> thr,
     pairs_found |-> Len(ps), pairs |-> Take(ps, 200)]

\* near tool, lines 215-221: the JSON payload
NearPayload(ps, thr, now) ==
    [generated_at_utc |-> now, threshold |-> thr,
     pairs_found |-> Len(ps), pairs |-> Take(ps, 500)]

\* as NearMarkdown, counting the pairs listed
NearMarkdownCountsListed(ps, thr, now) ==
    [generated_at |-> now, threshold |-> thr,
     count |-> Len(Take(ps, 200)), listed |-> Take(ps, 200)]

\* near tool, write_markdown: the header count and the pairs listed
NearMarkdown(ps, thr, now) ==
    [generated_at |-> now, threshold |-> thr,
     count |-> Len(ps), listed |-> Take(ps, 200)]

\* as WriteReports, returning early when there is nothing to report
WriteReportsUnlessEmpty ==
    /\ pc = "report"
    /\ IF (tool = "exact" /\ dupes = <<>>) \/ (tool = "near" /\ pairs = <<>>)
       THEN UNCHANGED <<json_report, md_report>>
       ELSE IF tool = "exact"
       THEN /\ json_report' = ExactPayload(dupes, clock)
            /\ md_report' = ExactMarkdown(dupes, clock)
       ELSE /\ json_report' = NearPayload(pairs, threshold, clock)
            /\ md_report' = NearMarkdown(pairs, threshold, clock)
    /\ exit_status' = "0"
    /\ pc' = "done"
    /\ UNCHANGED <<inputs, clock, run, out_dir, todo, func_index, funcs, keys, ki,
                   pairs, dupes, prev>>

\* lines 149-164 (exact), 215-231 (near)
WriteReports ==
    /\ pc = "report"
    /\ IF tool = "exact"
       THEN /\ json_report' = ExactPayload(dupes, clock)
            /\ md_report' = ExactMarkdown(dupes, clock)
       ELSE /\ json_report' = NearPayload(pairs, threshold, clock)
            /\ md_report' = NearMarkdown(pairs, threshold, clock)
    /\ exit_status' = "0"
    /\ pc' = "done"
    /\ UNCHANGED <<inputs, clock, run, out_dir, todo, func_index, funcs, keys, ki,
                   pairs, dupes, prev>>

\* the tool is started a second time on the same tree, later
RunAgain ==
    /\ pc = "done"
    /\ run = 1
    /\ run' = 2
    /\ clock' = clock + 1
    /\ prev' = [json |-> json_report, md |-> md_report]
    /\ pc' = "start"
    /\ todo' = <<>>
    /\ func_index' = <<>>
    /\ funcs' = <<>>
    /\ keys' = <<>>
    /\ ki' = 1
    /\ pairs' = <<>>
    /\ dupes' = <<>>
    /\ json_report' = <<>>
    /\ md_report' = <<>>
    /\ exit_status' = "running"
    /\ UNCHANGED <<inputs, out_dir>>

Next ==
    \/ CheckRoot
    \/ ListFiles
    \/ ScanFile
    \/ ScanFileRaises
    \/ GroupDuplicates
    \/ MakeBuckets
    \/ SearchBucket
    \/ FinishSearch
    \/ WriteReports
    \/ RunAgain

Spec == Init /\ [][Next]_vars

SpecLong == InitLong /\ [][Next]_vars

(***************************************************************************)
(* What the claims speak about                                             *)
(***************************************************************************)
\* the top-level function definitions of the files a scan reads:
\* <<file, index of the statement in the file>>
SrcFuncs ==
    UNION {{<<f, i>> : i \in {i \in 1..Len(f.shapes) : IsFunctionDef(f.shapes[i])}} :
           f \in {g \in iter_py_files(files) : g.status = "ok"}}

SrcShape(o) == o[1].shapes[o[2]]
SrcNode(o) == ParseBody(o[1].shapes, o[1].lead)[o[2]]
SrcHash(o) == hash_text(normalized_ast_dump(SrcNode(o)))

\* the function definition a record of the near tool was made from
SrcOfRecord(r) ==
    CHOOSE o \in SrcFuncs : RelPath(o[1]) = r.path /\ SrcNode(o).lineno = r.lineno

ExactFinished == tool = "exact" /\ pc \in {"report", "done"}
NearCollected == tool = "near" /\ pc \in {"search", "report", "done"}
NearSearched == tool = "near" /\ pc \in {"report", "done"}

AbsDiff(x, y) == IF x >= y THEN x - y ELSE y - x

\* an occurrence entry of a group stands for the source function o
EntryOf(occ, o) == occ.path = RelPath(o[1]) /\ occ.name = SrcShape(o).name

\* C1: the reported groups are exactly the hash classes, of the extracted
\* top-level functions, that have 2 or more members: each group has at
\* least 2 occurrences, as many as its class has members and one for each
\* member; each class of 2 or more has a group; no two groups share a hash.
C1_GroupsAreHashClasses ==
    ExactFinished =>
        LET Class(h) == {o \in SrcFuncs : SrcHash(o) = h}
        IN  /\ \A i \in 1..Len(dupes) :
                 /\ Len(dupes[i].occurrences) >= 2
                 /\ Len(dupes[i].occurrences) = Cardinality(Class(dupes[i].function_hash))
                 /\ \A o \in Class(dupes[i].function_hash) :
                       \E j \in 1..Len(dupes[i].occurrences) :
                           EntryOf(dupes[i].occurrences[j], o)
            /\ \A o \in SrcFuncs :
                 Cardinality(Class(SrcHash(o))) >= 2 =>
                     \E i \in 1..Len(dupes) : dupes[i].function_hash = SrcHash(o)
            /\ \A i, j \in 1..Len(dupes) :
                 dupes[i].function_hash = dupes[j].function_hash => i = j

\* two identical functions in two files form the one group, and the tree
\* holds a different function that is in no group
C1_Witness ==
    /\ ExactFinished
    /\ Len(dupes) = 1
    /\ Len(dupes[1].occurrences) = 2
    /\ dupes[1].occurrences[1].path # dupes[1].occurrences[2].path
    /\ \E o \in SrcFuncs : SrcHash(o) # dupes[1].function_hash

\* the identifiers of a tree, function name first, then in walk order
IdentsOf(shape) ==
    LET ns == walk(shape)
        One(n) == CASE n.kind \in {"FunctionDef", "AsyncFunctionDef", "ClassDef"} -> <<n.name>>
                    [] n.kind = "arg" -> <<n.arg>>
                    [] n.kind = "Name" -> <<n.id>>
                    [] OTHER -> <<>>
    IN  FlattenSeq([i \in 1..Len(ns) |-> One(ns[i])])

\* two function definitions differ only in the choice of identifiers: the
\* same tree once every identifier is replaced by the rank of its first use
FirstUse(ids, x) == Min({i \in 1..Len(ids) : ids[i] = x})

RECURSIVE RankIdents(_, _)
RankIdents(n, ids) ==
    IF n = NoneNode THEN n
    ELSE LET sub == SubTrees(n, LAMBDA x : RankIdents(x, ids))
         IN  CASE n.kind \in {"FunctionDef", "AsyncFunctionDef", "ClassDef"} ->
                    [sub EXCEPT !.name = <<FirstUse(ids, n.name)>>]
               [] n.kind = "arg" -> [sub EXCEPT !.arg = <<FirstUse(ids, n.arg)>>]
               [] n.kind = "Name" -> [sub EXCEPT !.id = <<FirstUse(ids, n.id)>>]
               [] OTHER -> sub

SameUpToIdentifiers(s1, s2) == RankIdents(s1, IdentsOf(s1)) = RankIdents(s2, IdentsOf(s2))

Reported(a, b) == \E n \in 1..Len(pairs) : {pairs[n].a, pairs[n].b} = {a, b}

\* C2: two top-level functions that differ only in identifier choice get
\* the same normalized dump and are reported as a pair at every threshold;
\* f1 and f2, which also differ in one literal, are reported at threshold
\* 0.50 with a ratio below 1.0.
C2_RenamedCopiesAreReported ==
    NearCollected =>
        \A i, j \in 1..Len(funcs) :
            LET a == funcs[i]
                b == funcs[j]
                sa == SrcShape(SrcOfRecord(a))
                sb == SrcShape(SrcOfRecord(b))
            IN  /\ (i < j /\ SameUpToIdentifiers(sa, sb)) =>
                        /\ a.normalized_dump = b.normalized_dump
                        /\ NearSearched => Reported(a, b)
                /\ (sa = ShF1 /\ sb = ShF2 /\ threshold = <<1, 2>> /\ NearSearched) =>
                        \E n \in 1..Len(pairs) :
                            /\ {pairs[n].a, pairs[n].b} = {a, b}
                            /\ pairs[n].ratio[1] < pairs[n].ratio[2]

\* C3: no unordered pair of occurrences is in the pairs list twice.
C3_PairReportedOnce ==
    \A m, n \in 1..Len(pairs) :
        {pairs[m].a, pairs[m].b} = {pairs[n].a, pairs[n].b} => m = n

\* C4: two top-level functions whose trees are the same but for the source
\* positions get the same hash and are in the same duplicate group.
C4_PositionInsensitive ==
    ExactFinished =>
        \A o1, o2 \in SrcFuncs :
            (o1 # o2 /\ SrcShape(o1) = SrcShape(o2)) =>
                \E i \in 1..Len(dupes) :
                    \E j1, j2 \in 1..Len(dupes[i].occurrences) :
                        /\ j1 # j2
                        /\ EntryOf(dupes[i].occurrences[j1], o1)
                        /\ EntryOf(dupes[i].occurrences[j2], o2)

\* the same function starts on different lines in two files
C4_Witness ==
    /\ ExactFinished
    /\ \E o1, o2 \in SrcFuncs :
          /\ SrcShape(o1) = SrcShape(o2)
          /\ SrcNode(o1).lineno # SrcNode(o2).lineno
          /\ \E i \in 1..Len(dupes) :
                \E j1, j2 \in 1..Len(dupes[i].occurrences) :
                    /\ j1 # j2
                    /\ EntryOf(dupes[i].occurrences[j1], o1)
                    /\ EntryOf(dupes[i].occurrences[j2], o2)

\* C5: every occurrence listed in a duplicate group carries the line
\* (an integer >= 1) at which the parser put the start of that definition.
C5_LineIsReported ==
    ExactFinished =>
        \A i \in 1..Len(dupes) :
            \A j \in 1..Len(dupes[i].occurrences) :
                LET occ == dupes[i].occurrences[j]
                IN  /\ occ.lineno >= 1
                    /\ \E o \in SrcFuncs :
                          EntryOf(occ, o) /\ SrcNode(o).lineno = occ.lineno

\* C6: a second run on the same files reports the same groups (exact tool)
\* or the same pairs (near tool), in the same order, as the first run,
\* whatever order the files were enumerated in by either run.
C6_SecondRunSameResult ==
    (run = 2 /\ pc = "done") =>
        /\ tool = "exact" => json_report.groups = prev.json.groups
        /\ tool = "near" => json_report.pairs = prev.json.pairs
        /\ md_report.listed = prev.md.listed

\* a second run, at a later time, over two or more files, with findings
C6_Witness ==
    /\ run = 2
    /\ pc = "done"
    /\ json_report.generated_at_utc # prev.json.generated_at_utc
    /\ Cardinality(iter_py_files(files)) >= 2
    /\ md_report.listed # <<>>

\* C7: a compared pair is in the pairs list if and only if its ratio is
\* greater than or equal to the threshold; no pair of the list has a ratio
\* below the threshold.
C7_KeptIffAtLeastThreshold ==
    /\ \A n \in 1..Len(pairs) :
          /\ pairs[n].ratio[1] * threshold[2] >= threshold[1] * pairs[n].ratio[2]
          /\ pairs[n].ratio = RatioOf(pairs[n].a.normalized_dump,
                                      pairs[n].b.normalized_dump)
    /\ NearSearched =>
          \A k \in DOMAIN Buckets(funcs) :
              LET c == Candidates(Buckets(funcs), k)
                  cp == ComparedPairs(c)
              IN  \A m \in 1..Len(cp) :
                      LET a == c[cp[m][1]]
                          b == c[cp[m][2]]
                          r == RatioOf(a.normalized_dump, b.normalized_dump)
                      IN  (r[1] * threshold[2] >= threshold[1] * r[2])
                          <=> \E n \in 1..Len(pairs) : pairs[n].a = a /\ pairs[n].b = b

\* a pair whose ratio equals the threshold is in the list, and a compared
\* pair is not
C7_Witness ==
    /\ NearSearched
    /\ \E n \in 1..Len(pairs) :
          pairs[n].ratio[1] * threshold[2] = threshold[1] * pairs[n].ratio[2]
    /\ \E k \in DOMAIN Buckets(funcs) :
          LET c == Candidates(Buckets(funcs), k)
              cp == ComparedPairs(c)
          IN  \E m \in 1..Len(cp) :
                  ~\E n \in 1..Len(pairs) :
                      pairs[n].a = c[cp[m][1]] /\ pairs[n].b = c[cp[m][2]]

\* C8: two functions whose dump lengths differ by exactly 120, in adjacent
\* buckets, are compared: the pair is in the list when its ratio reaches
\* the threshold.
C8_AcrossBucketBoundary ==
    NearSearched =>
        \A i, j \in 1..Len(funcs) :
            LET a == funcs[i]
                b == funcs[j]
                r == RatioOf(a.normalized_dump, b.normalized_dump)
            IN  (/\ AbsDiff(Len(a.normalized_dump), Len(b.normalized_dump)) = 120
                 /\ AbsDiff(Len(a.normalized_dump) \div 120,
                            Len(b.normalized_dump) \div 120) = 1
                 /\ r[1] * threshold[2] >= threshold[1] * r[2])
                => \E n \in 1..Len(pairs) : pairs[n].a = a /\ pairs[n].b = b

C8_Witness ==
    /\ NearSearched
    /\ \E n \in 1..Len(pairs) :
          /\ AbsDiff(Len(pairs[n].a.normalized_dump),
                     Len(pairs[n].b.normalized_dump)) = 120
          /\ (Len(pairs[n].a.normalized_dump) \div 120) + 1
                = Len(pairs[n].b.normalized_dump) \div 120

\* C9: no pair of the list has a and b at the same path and line.
C9_NoSelfPair ==
    \A n \in 1..Len(pairs) :
        ~(pairs[n].a.path = pairs[n].b.path /\ pairs[n].a.lineno = pairs[n].b.lineno)

\* two functions of one file are paired
C9_Witness ==
    \E n \in 1..Len(pairs) :
        /\ pairs[n].a.path = pairs[n].b.path
        /\ pairs[n].a.lineno # pairs[n].b.lineno

\* C10: with a missing root the tool stops with a non-zero status and a
\* message, before the output directory is made or a report written; and a
\* run stops without having written its reports only for a missing root.
C10_OnlyMissingRootStops ==
    /\ (~root_exists /\ pc # "start") =>
          /\ pc = "aborted"
          /\ exit_status = "Root not found"
          /\ ~out_dir
          /\ json_report = <<>> /\ md_report = <<>>
    /\ (exit_status \notin {"running", "0"}) => ~root_exists

(***************************************************************************)
(* A whole run as a function of the tree, for comparing runs               *)
(***************************************************************************)
\* lines 137-140 over the sorted files
RECURSIVE IndexAll(_, _)
IndexAll(index, sorted) ==
    IF sorted = <<>> THEN index
    ELSE IndexAll(IndexFile(index, RelPath(Head(sorted)), extract_functions(Head(sorted))),
                  Tail(sorted))

\* lines 194-211 over the sorted keys
RECURSIVE SearchAll(_, _, _)
SearchAll(bs, ks, thr) ==
    IF ks = <<>> THEN <<>>
    ELSE WindowPairs(Candidates(bs, Head(ks)), thr) \o SearchAll(bs, Tail(ks), thr)

SortedTree(tree) ==
    SortedFiles(CHOOSE l \in Listings(iter_py_files(tree)) : TRUE)

\* the groups the exact tool reports for a tree it scans to the end
ExactRun(tree) == DuplicateGroups(IndexAll(<<>>, SortedTree(tree)))

\* the pairs the near tool finds in a tree
NearRun(tree, thr) ==
    LET sorted == SortedTree(tree)
        recs == FlattenSeq([i \in 1..Len(sorted) |-> FileRecords(sorted[i])])
    IN  SortPairs(SearchAll(Buckets(recs), SortedKeys(Buckets(recs)), thr))

\* normalized_ast_dump (exact) or normalized_function_body_dump (near)
\* raises inside, for this function
NormalizationFails(t, shape) ==
    IF t = "exact" THEN DumpRaises(shape) ELSE CopyRaises(shape) \/ DumpRaises(shape)

\* the tree without the files that cannot be read or parsed and without
\* the functions whose normalisation fails (each of those is the last
\* statement of its file, so no other statement moves)
Healthy(t, tree) ==
    {[f EXCEPT !.shapes = SelectSeq(@, LAMBDA sh :
                    ~(IsFunctionDef(sh) /\ NormalizationFails(t, sh)))] :
        f \in {g \in tree : g.status = "ok"}}

\* C11: a file that cannot be read or parsed, or a function whose
\* normalisation fails, never aborts the run; the run ends with status 0,
\* its groups or pairs are those of the tree without the failing files and
\* functions, and no failing file is named in the output.
C11_FailuresAreSkipped ==
    /\ pc # "crashed"
    /\ pc = "done" =>
          /\ exit_status = "0"
          /\ tool = "exact" => dupes = ExactRun(Healthy(tool, files))
          /\ tool = "near" => pairs = NearRun(Healthy(tool, files), threshold)
          /\ \A f \in files : f.status # "ok" =>
                /\ \A i \in 1..Len(dupes) : \A j \in 1..Len(dupes[i].occurrences) :
                      dupes[i].occurrences[j].path # RelPath(f)
                /\ \A i \in 1..Len(pairs) :
                      pairs[i].a.path # RelPath(f) /\ pairs[i].b.path # RelPath(f)

\* the scan is over and has found no function
FoundNothing ==
    /\ pc \in {"search", "report", "done"}
    /\ func_index = <<>>
    /\ funcs = <<>>

\* C12: a scan that finds no function still ends with status 0 and both
\* reports written, the count 0 and the list empty in each.
C12_EmptyScanReports ==
    (FoundNothing /\ pc = "done") =>
        /\ exit_status = "0"
        /\ json_report # <<>> /\ md_report # <<>>
        /\ md_report.count = 0 /\ md_report.listed = <<>>
        /\ tool = "exact" =>
              json_report.duplicate_groups = 0 /\ json_report.groups = <<>>
        /\ tool = "near" =>
              json_report.pairs_found = 0 /\ json_report.pairs = <<>>

\* an empty directory has been scanned to the end
C12_Witness ==
    /\ root_exists
    /\ files = {}
    /\ pc = "done"
    /\ json_report # <<>>

\* C13 as claimed: the JSON report of a finished run lists every pair the
\* search found (near tool), every group that qualifies with all the
\* occurrences of its hash (exact tool).
C13_JsonListsEverything ==
    pc = "done" =>
        /\ tool = "near" => json_report.pairs = pairs
        /\ tool = "exact" =>
              \A i \in 1..Len(func_index) :
                  Len(func_index[i].value) >= 2 =>
                      \E g \in 1..Len(json_report.groups) :
                          /\ json_report.groups[g].function_hash = func_index[i].key
                          /\ json_report.groups[g].occurrences = func_index[i].value

\* C13 amended: the near tool's JSON report lists every pair when the
\* search found at most 500, and the first 500 of the sorted list
\* otherwise; the exact tool's lists every group with all its occurrences.
C13_JsonListsEverythingUpTo500 ==
    pc = "done" =>
        /\ (tool = "near" /\ Len(pairs) <= 500) => json_report.pairs = pairs
        /\ (tool = "near" /\ Len(pairs) > 500) =>
              json_report.pairs = SubSeq(pairs, 1, 500)
        /\ tool = "exact" =>
              \A i \in 1..Len(func_index) :
                  Len(func_index[i].value) >= 2 =>
                      \E g \in 1..Len(json_report.groups) :
                          /\ json_report.groups[g].function_hash = func_index[i].key
                          /\ json_report.groups[g].occurrences = func_index[i].value

\* a report of more than 200 and at most 500 pairs, listed whole
C13_Witness ==
    /\ tool = "near"
    /\ pc = "done"
    /\ Len(pairs) > 200
    /\ Len(pairs) <= 500
    /\ Len(json_report.pairs) = Len(pairs)

\* C14: the near tool reports the number of pairs found, in the JSON
\* report and in the Markdown report, whatever the length of the lists;
\* the JSON list is the first min(500, total) pairs of the sorted list and
\* the Markdown list the first min(200, total).
C14_TrueTotalAndCappedLists ==
    (tool = "near" /\ pc = "done") =>
        LET total == Len(pairs)
        IN  /\ json_report.pairs_found = total
            /\ md_report.count = total
            /\ json_report.pairs = SubSeq(pairs, 1, IF total < 500 THEN total ELSE 500)
            /\ md_report.listed = SubSeq(pairs, 1, IF total < 200 THEN total ELSE 200)

\* more pairs were found than either report lists
C14_Witness ==
    /\ tool = "near"
    /\ pc = "done"
    /\ Len(pairs) > 500
    /\ Len(json_report.pairs) = 500
    /\ Len(md_report.listed) = 200
    /\ json_report.pairs_found = Len(pairs)

\* str < str on two different relative paths
PathTextBefore(xpath, ypath) == xpath # ypath /\ TextLess(xpath, ypath)

\* the top-level statements, of the file at this relative path, that are
\* functions of this name
StatementsNamed(path, name) ==
    UNION {{i \in 1..Len(f.shapes) :
                IsFunctionDef(f.shapes[i]) /\ f.shapes[i].name = name} :
           f \in {g \in files : RelPath(g) = path}}

\* C15: records come in a fixed order, files by the text of their
\* slash-separated relative path and the functions of a file in source
\* order; the occurrences of each group follow it.
C15_RecordsInPathTextOrder ==
    /\ NearCollected =>
          \A i, j \in 1..Len(funcs) :
              i < j =>
                  \/ PathTextBefore(funcs[i].path, funcs[j].path)
                  \/ funcs[i].path = funcs[j].path /\ funcs[i].lineno < funcs[j].lineno
    /\ ExactFinished =>
          \A g \in 1..Len(dupes) :
              \A i, j \in 1..Len(dupes[g].occurrences) :
                  i < j =>
                      LET x == dupes[g].occurrences[i]
                          y == dupes[g].occurrences[j]
                      IN  \/ PathTextBefore(x.path, y.path)
                          \/ /\ x.path = y.path
                             /\ \E m \in StatementsNamed(x.path, x.name) :
                                    \E n \in StatementsNamed(y.path, y.name) : m < n

\* the file lies below a directory with one of the excluded names
UnderExcludedDir(f) ==
    \E i \in 1..(Len(f.path) - 1) : f.path[i] \in ExcludedDirs

\* the relative paths named in the groups and pairs, found or reported
PathsInResults ==
    UNION {{dupes[i].occurrences[j].path : j \in 1..Len(dupes[i].occurrences)} :
           i \in 1..Len(dupes)}
      \cup UNION {{func_index[i].value[j].path : j \in 1..Len(func_index[i].value)} :
                  i \in 1..Len(func_index)}
      \cup {funcs[i].path : i \in 1..Len(funcs)}
      \cup {pairs[i].a.path : i \in 1..Len(pairs)}
      \cup {pairs[i].b.path : i \in 1..Len(pairs)}

\* C16: no function of a .py file below a directory named .git,
\* __pycache__, .venv, venv or site-packages, at any depth, is in a group or
\* a pair (nor among the records they are made from).
C16_ExcludedDirsSkipped ==
    \A f \in files : UnderExcludedDir(f) => RelPath(f) \notin PathsInResults

\* a tree with a function below pkg/venv and the same function in two
\* other files has been scanned: the group has the two
C16_Witness ==
    /\ ExactFinished
    /\ \E f \in files : UnderExcludedDir(f) /\ Len(f.path) > 2
                        /\ \E i \in 1..Len(f.shapes) : f.shapes[i] = ShDuplicate
    /\ Len(dupes) = 1
    /\ Len(dupes[1].occurrences) = 2
    /\ dupes[1].occurrences[1].name = ShDuplicate.name

\* The module-level def and async def statements of the files a scan reads,
\* as <<relative path, name, line of the def>>; a function whose
\* normalisation fails is left out (the near tool skips it, see C11).
ModuleLevelDefs(t) ==
    UNION {{<<RelPath(f), f.shapes[i].name, f.lead + 1 + HeightSum(f.shapes, i - 1)>> :
                i \in {i \in 1..Len(f.shapes) :
                          /\ f.shapes[i].kind \in {"FunctionDef", "AsyncFunctionDef"}
                          /\ ~NormalizationFails(t, f.shapes[i])}} :
           f \in {g \in iter_py_files(files) : g.status = "ok"}}

\* the occurrences of the exact tool's index, one after the other
IndexedOccurrences ==
    FlattenSeq([i \in 1..Len(func_index) |-> func_index[i].value])

InGroup(o, g) ==
    \E j \in 1..Len(g.occurrences) : EntryOf(g.occurrences[j], o)

ScanPos(o) ==
    LET sorted == SortedTree(files)
    IN  <<CHOOSE i \in 1..Len(sorted) : sorted[i] = o[1], o[2]>>

ScannedBefore(o1, o2) ==
    \/ ScanPos(o1)[1] < ScanPos(o2)[1]
    \/ ScanPos(o1)[1] = ScanPos(o2)[1] /\ ScanPos(o1)[2] < ScanPos(o2)[2]

\* the hash h1 is met by the scan before the hash h2
FirstEncounteredBefore(h1, h2) ==
    \E o1 \in SrcFuncs :
        /\ SrcHash(o1) = h1
        /\ \A o2 \in SrcFuncs : SrcHash(o2) = h2 => ScannedBefore(o1, o2)

\* C19: the groups are listed by non-increasing number of occurrences, and
\* of two groups with the same number the one whose hash the sorted scan
\* met first is listed first.
C19_GroupsByCountThenFirstEncounter ==
    ExactFinished =>
        \A i, j \in 1..Len(dupes) :
            i < j =>
                \/ Len(dupes[i].occurrences) > Len(dupes[j].occurrences)
                \/ /\ Len(dupes[i].occurrences) = Len(dupes[j].occurrences)
                   /\ FirstEncounteredBefore(dupes[i].function_hash,
                                             dupes[j].function_hash)

\* two groups with the same number of occurrences are reported
C19_Witness ==
    /\ ExactFinished
    /\ Len(dupes) = 2
    /\ Len(dupes[1].occurrences) = Len(dupes[2].occurrences)
    /\ dupes[1].function_hash # dupes[2].function_hash

\* the ratios of consecutive pairs never increase
NonIncreasingRatio(ps) ==
    \A n \in 1..Len(ps) - 1 : FracGeq(ps[n].ratio, ps[n + 1].ratio)

\* the pairs of ps with the ratio r, in their order
WithRatio(ps, r) == SelectSeq(ps, LAMBDA pr : FracGeq(pr.ratio, r) /\ FracGeq(r, pr.ratio))

\* the step of main() that ends the search and sorts the pairs
SortStep == pc = "search" /\ pc' = "report"

\* C20: the final pairs list is in non-increasing order of ratio, and the
\* sort keeps the pairs of one ratio in the order the search appended them.
C20_PairsByRatioStable ==
    /\ [](NearSearched => NonIncreasingRatio(pairs))
    /\ [][SortStep =>
            /\ Len(pairs') = Len(pairs)
            /\ \A n \in 1..Len(pairs) :
                  WithRatio(pairs', pairs[n].ratio) = WithRatio(pairs, pairs[n].ratio)]_vars

\* the search appended the pairs in another order than the final one, and
\* the final list has two different pairs of one ratio next to each other
C20_Witness ==
    /\ NearSearched
    /\ pairs # SearchAll(Buckets(funcs), keys, threshold)
    /\ \E n \in 1..Len(pairs) - 1 :
          /\ FracGeq(pairs[n + 1].ratio, pairs[n].ratio)
          /\ pairs[n] # pairs[n + 1]

\* the parameters of a parameter list, in the order they are written
PositionalParams(arguments) == arguments.posonlyargs \o arguments.args

AllParams(arguments) ==
    PositionalParams(arguments)
    \o (IF arguments.vararg = NoneNode THEN <<>> ELSE <<arguments.vararg>>)
    \o arguments.kwonlyargs
    \o (IF arguments.kwarg = NoneNode THEN <<>> ELSE <<arguments.kwarg>>)

\* the parameter list na is the list oa with the placeholders of the claim,
\* and the walk of norm has, wherever the walk of node has a reference to a
\* parameter, that parameter's placeholder
ParamsArePlaceholders(node, norm) ==
    LET oa == node.args
        na == norm.args
        before == walk(node)
        after == walk(norm)
    IN  /\ \A i \in 1..Len(PositionalParams(na)) :
              PositionalParams(na)[i].arg = Placeholder("ARG", i - 1)
        /\ na.vararg # NoneNode => na.vararg.arg = Spell("VARARG")
        /\ na.kwarg # NoneNode => na.kwarg.arg = Spell("KWARG")
        /\ \A i, j \in 1..Len(AllParams(na)) :
              i # j => AllParams(na)[i].arg # AllParams(na)[j].arg
        /\ \A k \in 1..Len(before) :
              before[k].kind = "Name" =>
                  \A q \in 1..Len(AllParams(oa)) :
                      AllParams(oa)[q].arg = before[k].id =>
                          after[k].id = AllParams(na)[q].arg

\* C21: in the normalized form of every function collected, the positional
\* parameters (positional-only ones included) are named ARG0, ARG1, ... by
\* position, *args is VARARG, **kwargs is KWARG, no two parameters share a
\* name, and each reference to a parameter has the parameter's placeholder.
C21_ParametersGetPlaceholders ==
    NearCollected =>
        \A i \in 1..Len(funcs) :
            LET node == SrcNode(SrcOfRecord(funcs[i]))
            IN  /\ funcs[i].normalized_dump = ast_dump(NormalizedCopy(node), FALSE)
                /\ ParamsArePlaceholders(node, NormalizedCopy(node))

\* the names of the parameters of a parameter list
ParamNames(arguments) == {AllParams(arguments)[q].arg : q \in 1..Len(AllParams(arguments))}

\* the placeholder the parameter named x of the list has by its place
ParamPlaceholder(arguments, x) ==
    IF arguments.vararg # NoneNode /\ arguments.vararg.arg = x THEN Spell("VARARG")
    ELSE IF arguments.kwarg # NoneNode /\ arguments.kwarg.arg = x THEN Spell("KWARG")
    ELSE LET pos == PositionalParams(arguments)
         IN  Placeholder("ARG", (CHOOSE i \in 1..Len(pos) : pos[i].arg = x) - 1)

\* the identifiers referred to in a function that are no parameters, in
\* the order of the walk
VariableRefs(node) ==
    LET before == walk(node)
    IN  SelectSeq([k \in 1..Len(before) |->
                      IF before[k].kind = "Name" THEN before[k].id ELSE <<>>],
                  LAMBDA x : x # <<>> /\ x \notin ParamNames(node.args))

\* the number of different identifiers of ids met before the first x
FirstOccurrenceRank(ids, x) ==
    Cardinality({ids[j] : j \in 1..(FirstUse(ids, x) - 1)})

VariablesAreRanked(node, norm) ==
    LET before == walk(node)
        after == walk(norm)
        refs == VariableRefs(node)
        IsVar(k) == before[k].kind = "Name" /\ before[k].id \notin ParamNames(node.args)
        IsParam(k) == before[k].kind = "Name" /\ before[k].id \in ParamNames(node.args)
    IN  /\ \A k \in 1..Len(before) :
              IsVar(k) => after[k].id = Placeholder("VAR", FirstOccurrenceRank(refs, before[k].id))
        /\ \A k, l \in 1..Len(before) :
              (IsVar(k) /\ IsVar(l)) =>
                  (after[k].id = after[l].id <=> before[k].id = before[l].id)
        /\ \A k \in 1..Len(before) :
              IsParam(k) =>
                  /\ after[k].id = ParamPlaceholder(node.args, before[k].id)
                  /\ \A v \in 0..Len(before) : after[k].id # Placeholder("VAR", v)

\* C22: in the normalized form of every function collected, a reference to
\* an identifier that is no parameter is VAR<n>, n the rank of the
\* identifier's first occurrence; two such references have the same
\* placeholder exactly when they had the same identifier; a reference to a
\* parameter has the parameter's ARG / VARARG / KWARG placeholder, no VAR.
C22_VariablesGetRankedPlaceholders ==
    NearCollected =>
        \A i \in 1..Len(funcs) :
            LET node == SrcNode(SrcOfRecord(funcs[i]))
            IN  /\ funcs[i].normalized_dump = ast_dump(NormalizedCopy(node), FALSE)
                /\ VariablesAreRanked(node, NormalizedCopy(node))

\* the record r was made from a function of the scanned tree and has that
\* function's declared name and the line of its def
IsOriginalRecord(r) ==
    \E o \in SrcFuncs :
        /\ r.path = RelPath(o[1])
        /\ r.name = SrcShape(o).name
        /\ r.lineno = o[1].lead + 1 + HeightSum(o[1].shapes, o[2] - 1)
        /\ r.lineno # NoPos

\* C23: the normalization works on a copy: every record, and every a and b
\* of a pair, has the declared name and the line of its function, not the
\* FUNC placeholder or a cleared line.
C23_RecordsKeepNameAndLine ==
    /\ \A i \in 1..Len(funcs) : IsOriginalRecord(funcs[i])
    /\ \A n \in 1..Len(pairs) : IsOriginalRecord(pairs[n].a) /\ IsOriginalRecord(pairs[n].b)

\* a pair is reported with a function that starts below the first line
C23_Witness ==
    /\ NearSearched
    /\ \E n \in 1..Len(pairs) :
          /\ pairs[n].a.lineno > 1
          /\ pairs[n].a.name # Spell("FUNC")
          /\ pairs[n].a.normalized_dump # <<>>

\* |la - lb| <= max(120, 0.35 * min(la, lb)), in exact arithmetic
WithinLengthBound(la, lb) ==
    LET d == AbsDiff(la, lb)
        m == IF la <= lb THEN la ELSE lb
    IN  d <= 120 \/ d * 100 <= 35 * m

\* the pair a, b is in the list, in this order
Emitted(a, b) == \E n \in 1..Len(pairs) : pairs[n].a = a /\ pairs[n].b = b

\* C24: of the pairs of different occurrences of a candidate list, the ones
\* whose ratio is computed are those whose dump lengths la, lb have
\* |la - lb| <= max(120, 0.35 * min(la, lb)); no pair beyond that bound is
\* in the pairs list.
C24_ComparedIffWithinLengthBound ==
    NearSearched =>
        /\ \A k \in DOMAIN Buckets(funcs) :
              LET c == Candidates(Buckets(funcs), k)
                  po == PairOrder(c)
                  cp == ComparedPairs(c)
              IN  \A m \in 1..Len(po) :
                      (\E n \in 1..Len(cp) : cp[n] = po[m])
                          <=> WithinLengthBound(Len(c[po[m][1]].normalized_dump),
                                                Len(c[po[m][2]].normalized_dump))
        /\ \A n \in 1..Len(pairs) :
              WithinLengthBound(Len(pairs[n].a.normalized_dump),
                                Len(pairs[n].b.normalized_dump))

\* the dump of the function a record was made from, normalized on its own
\* as the only statement of a file
DumpAlone(r) ==
    normalized_function_body_dump(Locate(SrcShape(SrcOfRecord(r)), 1, 0))

\* C25: the dump of every record is the dump its function gets when it is
\* normalized alone: it does not depend on the functions normalized before
\* it in the run, whose names do not move its VAR numbers.
C25_DumpDependsOnFunctionOnly ==
    \A i \in 1..Len(funcs) : funcs[i].normalized_dump = DumpAlone(funcs[i])

\* a function with a variable is normalized after another one with a
\* variable, of another file
C25_Witness ==
    /\ NearCollected
    /\ \E i, j \in 1..Len(funcs) :
          /\ i < j
          /\ funcs[i].path # funcs[j].path
          /\ VariableRefs(SrcShape(SrcOfRecord(funcs[i]))) # <<>>
          /\ VariableRefs(SrcShape(SrcOfRecord(funcs[j]))) # <<>>

KeyOf(r) == bucket_key(r.normalized_dump)

\* how often the list has the pair with a = x and b = y
TimesEmitted(x, y) == Cardinality({n \in 1..Len(pairs) : pairs[n].a = x /\ pairs[n].b = y})

\* how many of the buckets k - 1 and k + 1 have records
Neighbours(k) == Cardinality({k - 1, k + 1} \cap {KeyOf(funcs[i]) : i \in 1..Len(funcs)})

\* C26: a pair that is emitted at all is emitted, when its members are in
\* adjacent buckets, exactly twice, once as (a, b) and once as (b, a); when
\* they are in one bucket k, 1 + (number of the buckets k - 1, k + 1 with
\* records) times; no other pair is emitted, and pairs_found is the length
\* of the list.
C26_EmissionCountByLayout ==
    NearSearched =>
        /\ \A n \in 1..Len(pairs) :
              LET x == pairs[n].a
                  y == pairs[n].b
              IN  \/ /\ AbsDiff(KeyOf(x), KeyOf(y)) = 1
                     /\ TimesEmitted(x, y) = 1 /\ TimesEmitted(y, x) = 1
                  \/ /\ KeyOf(x) = KeyOf(y)
                     /\ TimesEmitted(x, y) + TimesEmitted(y, x) = 1 + Neighbours(KeyOf(x))
        /\ pc = "done" => json_report.pairs_found = Len(pairs)

\* the pair x, y (x collected first) goes through line 210 when x is a and y is b
Kept(x, y) ==
    /\ ~LengthFilter(Len(x.normalized_dump), Len(y.normalized_dump))
    /\ FracGeq(RatioOf(x.normalized_dump, y.normalized_dump), threshold)

\* C26 as amended: a pair of one bucket k whose ratio (first collected
\* function first) reaches the threshold is emitted 1 + Neighbours(k)
\* times, in that order; a pair of adjacent buckets is emitted once in
\* each of the two orders whose ratio reaches the threshold (lower bucket
\* first in the lower bucket's window); a pair of the buckets k - 1 and
\* k + 1 is emitted once, lower bucket first, when bucket k has records and
\* the ratio in that order reaches the threshold; nothing else is emitted,
\* and pairs_found is the length of the list.
C26_EmissionCountByLayoutAndOrder ==
    NearSearched =>
        /\ \A i, j \in 1..Len(funcs) :
              LET x == funcs[i]
                  y == funcs[j]
                  kx == KeyOf(x)
                  ky == KeyOf(y)
                  n == TimesEmitted(x, y)
              IN  i # j =>
                    IF kx = ky
                    THEN n = IF i < j /\ Kept(x, y) THEN 1 + Neighbours(kx) ELSE 0
                    ELSE IF AbsDiff(kx, ky) = 1
                    THEN n = IF Kept(x, y) THEN 1 ELSE 0
                    ELSE IF ky = kx + 2
                    THEN n = IF kx + 1 \in DOMAIN Buckets(funcs) /\ Kept(x, y)
                             THEN 1 ELSE 0
                    ELSE n = 0
        /\ \A n \in 1..Len(pairs) :
              \E i, j \in 1..Len(funcs) :
                  i # j /\ pairs[n].a = funcs[i] /\ pairs[n].b = funcs[j]
        /\ pc = "done" => json_report.pairs_found = Len(pairs)

\* a pair of adjacent buckets is in the list in one order only, and a pair
\* of two buckets with one bucket between them is in the list
C26_Witness ==
    /\ NearSearched
    /\ \E n \in 1..Len(pairs) :
          /\ AbsDiff(KeyOf(pairs[n].a), KeyOf(pairs[n].b)) = 1
          /\ TimesEmitted(pairs[n].b, pairs[n].a) = 0
    /\ \E n \in 1..Len(pairs) : KeyOf(pairs[n].b) = KeyOf(pairs[n].a) + 2

\* C27: two different occurrences whose dump lengths differ by at most 120
\* and whose ratio reaches the threshold are in the pairs list at least
\* once, whether they are in one bucket or on both sides of a bucket
\* boundary.  The ratio is the one of the order the search takes the pair
\* in: the function collected first is a when the two are in one bucket,
\* either order when they are in two.
C27_NoSimilarLengthPairLost ==
    NearSearched =>
        \A i, j \in 1..Len(funcs) :
            LET x == funcs[i]
                y == funcs[j]
            IN  (/\ i # j
                 /\ KeyOf(x) = KeyOf(y) => i < j
                 /\ AbsDiff(Len(x.normalized_dump), Len(y.normalized_dump)) <= 120
                 /\ FracGeq(RatioOf(x.normalized_dump, y.normalized_dump), threshold))
                => TimesEmitted(x, y) >= 1

\* the list has a pair of two buckets whose lengths differ by 120 or less
\* and a pair of one bucket
C27_Witness ==
    /\ NearSearched
    /\ \E n \in 1..Len(pairs) :
          /\ KeyOf(pairs[n].a) # KeyOf(pairs[n].b)
          /\ AbsDiff(Len(pairs[n].a.normalized_dump), Len(pairs[n].b.normalized_dump)) <= 120
    /\ \E n \in 1..Len(pairs) :
          /\ KeyOf(pairs[n].a) = KeyOf(pairs[n].b)
          /\ pairs[n].a.normalized_dump # pairs[n].b.normalized_dump

\* C28: every pair of the list has two different occurrences, bucket keys
\* that differ by at most 1, a length difference of at most
\* max(120, 0.35 * min length) and a ratio that reaches the threshold.
C28_EmittedPairsWithinOneBucketStep ==
    \A n \in 1..Len(pairs) :
        LET x == pairs[n].a
            y == pairs[n].b
        IN  /\ ~SameOccurrence(x, y)
            /\ AbsDiff(KeyOf(x), KeyOf(y)) <= 1
            /\ WithinLengthBound(Len(x.normalized_dump), Len(y.normalized_dump))
            /\ FracGeq(pairs[n].ratio, threshold)
            /\ pairs[n].ratio = RatioOf(x.normalized_dump, y.normalized_dump)

\* C28 as amended: every pair of the list has two different occurrences,
\* bucket keys that differ by at most 2, and by 2 only when the bucket
\* between them has records, a length difference of at most
\* max(120, 0.35 * min length) and a ratio that reaches the threshold.
C28_EmittedPairsWithinOneWindow ==
    \A n \in 1..Len(pairs) :
        LET x == pairs[n].a
            y == pairs[n].b
        IN  /\ ~SameOccurrence(x, y)
            /\ \/ AbsDiff(KeyOf(x), KeyOf(y)) <= 1
               \/ /\ AbsDiff(KeyOf(x), KeyOf(y)) = 2
                  /\ \E i \in 1..Len(funcs) : 2 * KeyOf(funcs[i]) = KeyOf(x) + KeyOf(y)
            /\ WithinLengthBound(Len(x.normalized_dump), Len(y.normalized_dump))
            /\ FracGeq(pairs[n].ratio, threshold)
            /\ pairs[n].ratio = RatioOf(x.normalized_dump, y.normalized_dump)

\* the list has a pair whose keys differ by 2, and two functions whose keys
\* differ by 3 and whose lengths are within 35% of the shorter one are not
\* in it
C28_Witness ==
    /\ NearSearched
    /\ \E n \in 1..Len(pairs) : AbsDiff(KeyOf(pairs[n].a), KeyOf(pairs[n].b)) = 2
    /\ \E i, j \in 1..Len(funcs) :
          /\ KeyOf(funcs[j]) = KeyOf(funcs[i]) + 3
          /\ WithinLengthBound(Len(funcs[i].normalized_dump), Len(funcs[j].normalized_dump))
          /\ TimesEmitted(funcs[i], funcs[j]) + TimesEmitted(funcs[j], funcs[i]) = 0

\* the file has a directory with one of the excluded names between the
\* root and itself
ExcludedBelowRoot(f) ==
    \E i \in 1..(Len(f.path) - 1) : f.path[i] \in ExcludedDirs

\* the top-level functions of the file are in the results of the run
Contributes(f) ==
    \A i \in 1..Len(f.shapes) :
        (IsFunctionDef(f.shapes[i]) /\ ~NormalizationFails(tool, f.shapes[i])) =>
            LET node == ParseBody(f.shapes, f.lead)[i]
            IN  IF tool = "near"
                THEN \E j \in 1..Len(funcs) :
                        /\ funcs[j].path = RelPath(f)
                        /\ funcs[j].lineno = node.lineno
                ELSE \E j \in 1..Len(func_index) :
                        /\ func_index[j].key = hash_text(normalized_ast_dump(node))
                        /\ \E n \in 1..Len(func_index[j].value) :
                               /\ func_index[j].value[n].path = RelPath(f)
                               /\ func_index[j].value[n].name = node.name

\* C29: once the scan is over, every readable .py file below the root that
\* has no excluded directory between the root and itself has its top-level
\* functions in the results, whatever the root and the directories above
\* it are called.
C29_ScannedByRelativePath ==
    (ExactFinished \/ NearCollected) =>
        \A f \in files :
            (/\ f.status = "ok"
             /\ EndsWithPy(f.path[Len(f.path)])
             /\ ~ExcludedBelowRoot(f))
            => Contributes(f)

\* the exact tool finishes on the files of the run
ExactCompletes == \A f \in iter_py_files(files) : ~Propagates("exact", f)

\* the records the near tool holds for a function definition
RecordsOf(o) ==
    {i \in 1..Len(funcs) :
        funcs[i].path = RelPath(o[1]) /\ funcs[i].lineno = SrcNode(o).lineno}

\* the two records are a pair of the list, in either order, with ratio 1.0
PairedAsEqual(x, y) ==
    \E n \in 1..Len(pairs) :
        /\ {pairs[n].a, pairs[n].b} = {x, y}
        /\ pairs[n].ratio = <<1, 1>>

\* both definitions have one record each, the two records have the same
\* dump and the same bucket key, and they are a pair with ratio 1.0
FoundAsEqual(o1, o2) ==
    /\ Cardinality(RecordsOf(o1)) = 1
    /\ Cardinality(RecordsOf(o2)) = 1
    /\ \A i \in RecordsOf(o1), j \in RecordsOf(o2) :
          /\ funcs[i].normalized_dump = funcs[j].normalized_dump
          /\ KeyOf(funcs[i]) = KeyOf(funcs[j])
          /\ PairedAsEqual(funcs[i], funcs[j])

\* FoundAsEqual for every two different definitions of S with one hash
\* by the exact tool
ExactGroupsFound(S) ==
    LET Id(r) == <<r.path, r.lineno>>
        \* <<definition, hash by the exact tool, its records in the near tool>>
        info == {<<o, SrcHash(o), RecordsOf(o)>> : o \in S}
        equal == {{Id(pairs[n].a), Id(pairs[n].b)} :
                     n \in {m \in 1..Len(pairs) : pairs[m].ratio = <<1, 1>>}}
    IN  \A p, q \in info :
            (p[1] # q[1] /\ p[2] = q[2]) =>
                /\ Cardinality(p[3]) = 1
                /\ Cardinality(q[3]) = 1
                /\ \A i \in p[3], j \in q[3] :
                      /\ funcs[i].normalized_dump = funcs[j].normalized_dump
                      /\ KeyOf(funcs[i]) = KeyOf(funcs[j])
                      /\ {Id(funcs[i]), Id(funcs[j])} \in equal

====
